---- MODULE Spec2Model ----
(***************************************************************************)
(* Model of comake/solid-dgraph: the Dgraph client transport               *)
(* (src/src/DgraphClient.ts), the lazy initialization guard and the        *)
(* accessor operations (src/src/DgraphDataAccessor.ts, lines 488-944) and  *)
(* the helpers of DgraphUtil (src/unnamed/part_004).                       *)
(*                                                                         *)
(* The specifications of the module:                                       *)
(*   Spec             one query or upsert in performBlockWithTransaction   *)
(*   SpecGuard        concurrent accessor operations passing the guard     *)
(*   SpecStore        accessor operations applied to a model of the        *)
(*                    database                                             *)
(*   SpecLiteral      one literal written and read back                    *)
(*   SpecShared       SpecStore, started after writeContainer of the root  *)
(*   SpecDecode       rdfQuadsFromJsonArray applied to query responses     *)
(*   SpecWide         writeDocument with a document of many subjects       *)
(*   SpecTermination  SpecGuard with transaction retries, under fairness   *)
(***************************************************************************)
EXTENDS Integers, Sequences, FiniteSets, TLC

VARIABLES
    \* ---- DgraphClient.performBlockWithTransaction (one call) ----
    tpc,          \* position of the call: "idle", "block", "finally", "done"
    top,          \* the operation running: "none", "query", "upsert"
    tries,        \* the `tries` argument of the innermost frame
    txns,         \* one entry per transaction opened by the call: number of discard() calls on it
    frame,        \* the frame whose finally block runs next (frames are 1..tries)
    completion,   \* the completion travelling up the frames: [kind, val]
    attempts,     \* history: outcome of each call of transactionBlock, in order
    \* ---- DgraphDataAccessor: the initialization guard ----
    clientInitialized,    \* this.clientInitialized
    initializingClient,   \* this.initializingClient
    gpc,          \* per caller: "idle", "initializing", "waiting", "ensured", "txn", "done"
    gop,          \* per caller: the accessor operation it runs
    waitTime,     \* per caller: the waitTime argument of the ensureClientIsInitialized call
                  \* that waits or has thrown; 0 when it has none
    gresult,      \* per caller: how its operation ended
    gtxns,        \* per caller: transactions it has opened
    alterLog,     \* history: outcome of every setSchema (alter) call, in call order
    arrived,      \* history, per caller: the guard's state when the operation started
    sawAlterFail, \* history, per caller: an alter call failed while it sat in the poll loop
    \* ---- the database and the accessor operations on it ----
    store,        \* the edges of the database
    nextUid,      \* the uid the database gives to the next node it creates
    lastOp,       \* history: the last operation, its input and how it ended
    nops          \* history: the number of writes and deletes so far

tvars == <<tpc, top, tries, txns, frame, completion, attempts>>

gvars == <<clientInitialized, initializingClient, gpc, gop, waitTime, gresult,
           gtxns, alterLog, arrived, sawAlterFail>>

svars == <<store, nextUid, lastOp, nops>>

vars == <<tvars, gvars, svars>>

-----------------------------------------------------------------------------
(* Constants of the program *)

MAX_TRANSACTION_RETRIES == 3

GRPC_UNAVAILABLE_ERROR_CODE == 14

GRPC_UNAVAILABLE_ERROR_DETAILS ==
    {"Connection dropped", "read ECONNRESET", "No connection established"}

-----------------------------------------------------------------------------
(* Values a database call can throw.  A value is [kind, code, details]:    *)
(* kind "ERR_ABORTED" is the sentinel object dgraph.ERR_ABORTED (compared  *)
(* by identity), "ServiceError" a gRPC error object, "Error" any other     *)
(* Error object, "string" a thrown non-empty string, "undefined" a thrown  *)
(* undefined.  code -1 and details "" stand for an absent property.        *)

NoCode == -1

ERR_ABORTED == [kind |-> "ERR_ABORTED", code |-> NoCode, details |-> ""]

ServiceError(c, d) == [kind |-> "ServiceError", code |-> c, details |-> d]

ThrownValues ==
    {ERR_ABORTED}
    \cup {ServiceError(GRPC_UNAVAILABLE_ERROR_CODE, d) :
            d \in GRPC_UNAVAILABLE_ERROR_DETAILS \cup {"failed to connect to all addresses"}}
    \cup {ServiceError(2, "Connection dropped")}
    \cup {[kind |-> "Error", code |-> NoCode, details |-> ""],
          [kind |-> "string", code |-> NoCode, details |-> ""],
          [kind |-> "undefined", code |-> NoCode, details |-> ""]}

\* JavaScript truthiness of a thrown value (`error &&` at DgraphClient.ts:62)
Truthy(error) == error.kind # "undefined"

isRetriableGrpcErrorCodeOnly(error) ==
    error.code = GRPC_UNAVAILABLE_ERROR_CODE

isRetriableGrpcError(error) ==
    /\ error.code = GRPC_UNAVAILABLE_ERROR_CODE
    /\ error.details \in GRPC_UNAVAILABLE_ERROR_DETAILS

isRetriableTransactionError(error) ==
    \/ error = ERR_ABORTED
    \/ isRetriableGrpcError(error)

\* the condition of the catch block that decides on another attempt
ShouldRetryOffByOne(error, n) ==
    /\ Truthy(error)
    /\ isRetriableTransactionError(error)
    /\ n <= MAX_TRANSACTION_RETRIES

ShouldRetry(error, n) ==
    /\ Truthy(error)
    /\ isRetriableTransactionError(error)
    /\ n < MAX_TRANSACTION_RETRIES

\* what a successful transactionBlock returns: the response JSON of a
\* query, undefined (void) for an upsert
QueryResults == {"json1", "json2"}

BlockResults(o) == IF o = "query" THEN QueryResults ELSE {"undefined"}

Return(v) == [kind |-> "return", val |-> v]

Throw(e) == [kind |-> "throw", val |-> e]

NoCompletion == [kind |-> "none", val |-> "undefined"]

\* this.dgraphClient.newTxn(): a new transaction, not yet discarded
newTxn(ts) == Append(ts, 0)

\* transaction.discard() on the transaction of frame f
discard(ts, f) == [ts EXCEPT ![f] = @ + 1]

-----------------------------------------------------------------------------
(* Actions of the transport *)

\* sendDgraphQuery / sendDgraphUpsert: the first frame opens its
\* transaction and calls transactionBlock
StartCall(o) ==
    /\ tpc = "idle"
    /\ tpc' = "block"
    /\ top' = o
    /\ tries' = 1
    /\ txns' = newTxn(<<>>)
    /\ frame' = 0
    /\ completion' = NoCompletion
    /\ attempts' = <<>>
    /\ UNCHANGED <<gvars, svars>>

sendDgraphQuery == StartCall("query")

sendDgraphUpsert == StartCall("upsert")

\* the awaited transactionBlock resolves: `return await transactionBlock(...)`
BlockResolves ==
    /\ tpc = "block"
    /\ \E v \in BlockResults(top) :
        /\ attempts' = Append(attempts, Return(v))
        /\ completion' = Return(v)
    /\ tpc' = "finally"
    /\ frame' = tries
    /\ UNCHANGED <<top, tries, txns>>
    /\ UNCHANGED <<gvars, svars>>

\* the awaited transactionBlock rejects with a retriable value and tries
\* are left: the catch block calls performBlockWithTransaction again,
\* which opens the next transaction before any finally block has run
BlockRejectsRetry ==
    /\ tpc = "block"
    /\ \E e \in ThrownValues :
        /\ ShouldRetry(e, tries)
        /\ attempts' = Append(attempts, Throw(e))
    /\ tries' = tries + 1
    /\ txns' = newTxn(txns)
    /\ UNCHANGED <<tpc, top, frame, completion>>
    /\ UNCHANGED <<gvars, svars>>

\* the awaited transactionBlock rejects and the catch block rethrows
BlockRejectsThrow ==
    /\ tpc = "block"
    /\ \E e \in ThrownValues :
        /\ ~ShouldRetry(e, tries)
        /\ attempts' = Append(attempts, Throw(e))
        /\ completion' = Throw(e)
    /\ tpc' = "finally"
    /\ frame' = tries
    /\ UNCHANGED <<top, tries, txns>>
    /\ UNCHANGED <<gvars, svars>>

\* a finally block: `await transaction.discard()`, then the completion
\* goes on to the calling frame (its catch block is not re-entered: the
\* recursive call sits inside the catch block)
FinallySkipOuter ==
    /\ tpc = "finally"
    /\ txns' = discard(txns, frame)
    /\ frame' = 0
    /\ tpc' = "done"
    /\ UNCHANGED <<top, tries, completion, attempts>>
    /\ UNCHANGED <<gvars, svars>>

Finally ==
    /\ tpc = "finally"
    /\ txns' = discard(txns, frame)
    /\ frame' = frame - 1
    /\ tpc' = IF frame = 1 THEN "done" ELSE "finally"
    /\ UNCHANGED <<top, tries, completion, attempts>>
    /\ UNCHANGED <<gvars, svars>>

\* the caller has received the result; the client is free for the next call
CallReturns ==
    /\ tpc = "done"
    /\ tpc' = "idle"
    /\ top' = "none"
    /\ tries' = 0
    /\ txns' = <<>>
    /\ frame' = 0
    /\ completion' = NoCompletion
    /\ attempts' = <<>>
    /\ UNCHANGED <<gvars, svars>>

TransportInit ==
    /\ tpc = "idle"
    /\ top = "none"
    /\ tries = 0
    /\ txns = <<>>
    /\ frame = 0
    /\ completion = NoCompletion
    /\ attempts = <<>>

-----------------------------------------------------------------------------
(* The initialization guard: ensureClientIsInitialized / initializeClient *)

INITIALIZATION_CHECK_PERIOD == 10

MAX_INITIALIZATION_TIMEOUT_DURATION == 1500

NumCallers == 2

Callers == 1..NumCallers

\* the accessor operations that reach the database: reads go through
\* sendDgraphClientQuery, writes through sendDgraphClientUpsert
ReadOps == {"getData"}

WriteOps == {"writeContainer"}

\* new Error('Failed to initialize Dgraph database.')
InitFailure == "Failed to initialize Dgraph database."

\* what the schema-alter call can reject with
AlterErrors == {"14 UNAVAILABLE: No connection established", "schema parse error"}

GuardState ==
    IF clientInitialized THEN "Ready"
    ELSE IF initializingClient THEN "Initializing" ELSE "Uninitialized"

\* the number of alter calls that have not completed yet
AlterInFlight == Cardinality({i \in 1..Len(alterLog) : alterLog[i].out = "pending"})

\* this.dgraphClient.setSchema(...) is called by caller c
AlterCalled(log, c) == Append(log, [by |-> c, out |-> "pending"])

\* the pending alter call of caller c settles with outcome out
AlterSettled(log, c, out) ==
    [i \in 1..Len(log) |->
        IF log[i].by = c /\ log[i].out = "pending" THEN [log[i] EXCEPT !.out = out]
        ELSE log[i]]

\* the bound of the poll loop (DgraphDataAccessor.ts:850)
WithinTimeoutAlways(w) == TRUE

WithinTimeoutStrict(w) == w < MAX_INITIALIZATION_TIMEOUT_DURATION

WithinTimeout(w) == w <= MAX_INITIALIZATION_TIMEOUT_DURATION

\* the first branch of ensureClientIsInitialized
ShouldInitialize(c) == ~clientInitialized /\ ~initializingClient

\* initializeClient up to its await: the flag is set and the alter call sent
initializeClientNoFlag(c) ==
    /\ initializingClient' = initializingClient
    /\ alterLog' = AlterCalled(alterLog, c)
    /\ gpc' = [gpc EXCEPT ![c] = "initializing"]
    /\ UNCHANGED <<clientInitialized, gresult, gtxns>>

initializeClient(c) ==
    /\ initializingClient' = TRUE
    /\ alterLog' = AlterCalled(alterLog, c)
    /\ gpc' = [gpc EXCEPT ![c] = "initializing"]
    /\ UNCHANGED <<clientInitialized, gresult, gtxns>>

\* ensureClientIsInitialized returns normally to the operation
ensureReturns(c) ==
    /\ gpc' = [gpc EXCEPT ![c] = "ensured"]
    /\ waitTime' = [waitTime EXCEPT ![c] = 0]
    /\ UNCHANGED <<clientInitialized, initializingClient, gresult, gtxns, alterLog>>

\* the third branch: throw new Error('Failed to initialize Dgraph database.')
ensureThrowsNothing(c, w) == ensureReturns(c)

ensureThrows(c, w) ==
    /\ gpc' = [gpc EXCEPT ![c] = "done"]
    /\ gresult' = [gresult EXCEPT ![c] = InitFailure]
    /\ waitTime' = [waitTime EXCEPT ![c] = w]
    /\ UNCHANGED <<clientInitialized, initializingClient, gtxns, alterLog>>

\* one evaluation of ensureClientIsInitialized(w) by caller c, up to its
\* first await, its throw or its return
ensureClientIsInitialized(c, w) ==
    IF ShouldInitialize(c)
    THEN /\ initializeClient(c)
         /\ waitTime' = [waitTime EXCEPT ![c] = 0]
    ELSE IF ~clientInitialized /\ initializingClient /\ WithinTimeout(w)
    THEN /\ gpc' = [gpc EXCEPT ![c] = "waiting"]
         /\ waitTime' = [waitTime EXCEPT ![c] = w]
         /\ UNCHANGED <<clientInitialized, initializingClient, gresult, gtxns, alterLog>>
    ELSE IF ~clientInitialized
    THEN ensureThrows(c, w)
    ELSE ensureReturns(c)

\* an accessor operation starts: sendDgraphClientQuery / sendDgraphClientUpsert
\* call ensureClientIsInitialized() with waitTime = 0
StartOperation(c, o) ==
    /\ gpc[c] = "idle"
    /\ gop' = [gop EXCEPT ![c] = o]
    /\ arrived' = [arrived EXCEPT ![c] = GuardState]
    /\ ensureClientIsInitialized(c, 0)
    /\ UNCHANGED <<sawAlterFail, tvars, svars>>

sendDgraphClientQuery(c) == \E o \in ReadOps : StartOperation(c, o)

sendDgraphClientUpsert(c) == \E o \in WriteOps : StartOperation(c, o)

\* the timer of wait(INITIALIZATION_CHECK_PERIOD) fires and the caller
\* calls ensureClientIsInitialized(waitTime + INITIALIZATION_CHECK_PERIOD)
Poll(c) ==
    /\ gpc[c] = "waiting"
    /\ ensureClientIsInitialized(c, waitTime[c] + INITIALIZATION_CHECK_PERIOD)
    /\ UNCHANGED <<gop, arrived, sawAlterFail, tvars, svars>>

\* the alter call of the initializing caller resolves
AlterResolves(c) ==
    /\ gpc[c] = "initializing"
    /\ clientInitialized' = TRUE
    /\ initializingClient' = FALSE
    /\ alterLog' = AlterSettled(alterLog, c, "ok")
    /\ gpc' = [gpc EXCEPT ![c] = "ensured"]
    /\ UNCHANGED <<gop, waitTime, gresult, gtxns, arrived, sawAlterFail, tvars, svars>>

\* the alter call rejects: the catch block resets the flag and rethrows
AlterRejectsStuck(c) ==
    /\ gpc[c] = "initializing"
    /\ \E e \in AlterErrors :
        /\ alterLog' = AlterSettled(alterLog, c, e)
        /\ gresult' = [gresult EXCEPT ![c] = e]
    /\ gpc' = [gpc EXCEPT ![c] = "done"]
    /\ sawAlterFail' = [d \in Callers |-> sawAlterFail[d] \/ gpc[d] = "waiting"]
    /\ UNCHANGED <<initializingClient, clientInitialized, gop, waitTime, gtxns, arrived, tvars, svars>>

\* the rejection handed to every caller in the poll loop as well
AlterRejectsBroadcast(c) ==
    /\ gpc[c] = "initializing"
    /\ initializingClient' = FALSE
    /\ \E e \in AlterErrors :
        /\ alterLog' = AlterSettled(alterLog, c, e)
        /\ gresult' = [d \in Callers |->
                IF d = c \/ gpc[d] = "waiting" THEN e ELSE gresult[d]]
    /\ gpc' = [d \in Callers |-> IF d = c \/ gpc[d] = "waiting" THEN "done" ELSE gpc[d]]
    /\ sawAlterFail' = [d \in Callers |-> sawAlterFail[d] \/ gpc[d] = "waiting"]
    /\ UNCHANGED <<clientInitialized, gop, waitTime, gtxns, arrived, tvars, svars>>

AlterRejects(c) ==
    /\ gpc[c] = "initializing"
    /\ initializingClient' = FALSE
    /\ \E e \in AlterErrors :
        /\ alterLog' = AlterSettled(alterLog, c, e)
        /\ gresult' = [gresult EXCEPT ![c] = e]
    /\ gpc' = [gpc EXCEPT ![c] = "done"]
    /\ sawAlterFail' = [d \in Callers |-> sawAlterFail[d] \/ gpc[d] = "waiting"]
    /\ UNCHANGED <<clientInitialized, gop, waitTime, gtxns, arrived, tvars, svars>>

\* ensureClientIsInitialized has returned: the operation goes on to
\* this.dgraphClient.sendDgraphQuery / sendDgraphUpsert, which opens a
\* transaction
OpenTransaction(c) ==
    /\ gpc[c] = "ensured"
    /\ gpc' = [gpc EXCEPT ![c] = "txn"]
    /\ gtxns' = [gtxns EXCEPT ![c] = @ + 1]
    /\ UNCHANGED <<clientInitialized, initializingClient, gop, waitTime, gresult,
                   alterLog, arrived, sawAlterFail, tvars, svars>>

\* the transport call settles and the operation ends
OperationSettles(c) ==
    /\ gpc[c] = "txn"
    /\ gpc' = [gpc EXCEPT ![c] = "done"]
    /\ gresult' = [gresult EXCEPT ![c] = "settled"]
    /\ UNCHANGED <<clientInitialized, initializingClient, gop, waitTime, gtxns,
                   alterLog, arrived, sawAlterFail, tvars, svars>>

GuardInit ==
    /\ clientInitialized = FALSE
    /\ initializingClient = FALSE
    /\ gpc = [c \in Callers |-> "idle"]
    /\ gop = [c \in Callers |-> "none"]
    /\ waitTime = [c \in Callers |-> 0]
    /\ gresult = [c \in Callers |-> "none"]
    /\ gtxns = [c \in Callers |-> 0]
    /\ alterLog = <<>>
    /\ arrived = [c \in Callers |-> "none"]
    /\ sawAlterFail = [c \in Callers |-> FALSE]

-----------------------------------------------------------------------------
(* RDF terms and quads.  Every string of the program that the model looks  *)
(* into is a sequence of characters; an IRI, a language tag or a blank     *)
(* node label is a sequence of one token.                                   *)

NamedNode(v) == [termType |-> "NamedNode", value |-> v, language |-> <<>>, datatype |-> <<>>]

BlankNode(v) == [termType |-> "BlankNode", value |-> v, language |-> <<>>, datatype |-> <<>>]

Literal(v, lang, dt) == [termType |-> "Literal", value |-> v, language |-> lang, datatype |-> dt]

DefaultGraph == <<>>

Quad(s, p, o, g) == [subject |-> s, predicate |-> p, object |-> o, graph |-> g]

XSD_STRING == <<"http://www.w3.org/2001/XMLSchema#string">>

RDF_LANGSTRING == <<"http://www.w3.org/1999/02/22-rdf-syntax-ns#langString">>

\* CONTENT_TYPE of the host framework (http://www.w3.org/ns/ma-ont#format)
CONTENT_TYPE == <<"http://www.w3.org/ns/ma-ont#format">>

INTERNAL_QUADS == <<"internal/quads">>

NON_RDF_KEYS == {"uid", "uri", "container", "dgraph.type"}

\* the elements of a sequence
Range(seq) == {seq[i] : i \in 1..Len(seq)}

RECURSIVE Flatten(_)
\* the concatenation of a sequence of sequences
Flatten(ss) ==
    IF ss = <<>> THEN <<>>
    ELSE IF Len(ss) = 1 THEN ss[1]
    ELSE LET half == Len(ss) \div 2 IN
         Flatten(SubSeq(ss, 1, half)) \o Flatten(SubSeq(ss, half + 1, Len(ss)))

\* the decimal digits of a number, as `${n}` prints it
DigitChars == <<"0", "1", "2", "3", "4", "5", "6", "7", "8", "9">>

RECURSIVE Digits(_)
Digits(n) == IF n < 10 THEN <<DigitChars[n + 1]>>
             ELSE Digits(n \div 10) \o <<DigitChars[(n % 10) + 1]>>

-----------------------------------------------------------------------------
(* DgraphUtil: the value slots *)

\* the mapping without its case for xsd:positiveInteger
literalDatatypeToPrimitivePredicateFewerCases(datatype) ==
    CASE datatype \in {<<"http://www.w3.org/2001/XMLSchema#dateTime">>,
                       <<"http://www.w3.org/2001/XMLSchema#date">>} -> "_value.%dt"
      [] datatype \in {<<"http://www.w3.org/2001/XMLSchema#int">>,
                       <<"http://www.w3.org/2001/XMLSchema#integer">>} -> "_value.#i"
      [] datatype = <<"http://www.w3.org/2001/XMLSchema#boolean">> -> "_value.?"
      [] datatype \in {<<"http://www.w3.org/2001/XMLSchema#double">>,
                       <<"http://www.w3.org/2001/XMLSchema#float">>} -> "_value.#"
      [] OTHER -> "_value.%"

literalDatatypeToPrimitivePredicate(datatype) ==
    CASE datatype \in {<<"http://www.w3.org/2001/XMLSchema#dateTime">>,
                       <<"http://www.w3.org/2001/XMLSchema#date">>} -> "_value.%dt"
      [] datatype \in {<<"http://www.w3.org/2001/XMLSchema#int">>,
                       <<"http://www.w3.org/2001/XMLSchema#positiveInteger">>,
                       <<"http://www.w3.org/2001/XMLSchema#integer">>} -> "_value.#i"
      [] datatype = <<"http://www.w3.org/2001/XMLSchema#boolean">> -> "_value.?"
      [] datatype \in {<<"http://www.w3.org/2001/XMLSchema#double">>,
                       <<"http://www.w3.org/2001/XMLSchema#float">>} -> "_value.#"
      [] OTHER -> "_value.%"

-----------------------------------------------------------------------------
(* DgraphUpsert and the statements the accessor puts into it.              *)
(* A reference is uid(name), _:name, a quoted string or the wildcard *;    *)
(* a statement is subject, predicate, object; a query block declares the   *)
(* variable `name`.                                                        *)

Uid(name) == [k |-> "uid", n |-> name]

BNode(name) == [k |-> "blank", n |-> name]

Str(text) == [k |-> "str", n |-> text]

Star == [k |-> "star", n |-> <<>>]

NQuad(s, p, o) == [s |-> s, p |-> p, o |-> o]

EmptyUpsert == [queries |-> <<>>, setNquads |-> <<>>, delNquads |-> <<>>]

\* the parts of two upserts put one after the other
Merge(up, more) ==
    [queries |-> up.queries \o more.queries,
     setNquads |-> up.setNquads \o more.setNquads,
     delNquads |-> up.delNquads \o more.delNquads]

RECURSIVE MergeAll(_)
MergeAll(ups) == IF ups = <<>> THEN EmptyUpsert ELSE Merge(Head(ups), MergeAll(Tail(ups)))

\* `name as var(func: eq(<uri>, "uri")) @filter(eq(<dgraph.type>, "Entity"))`
entityUidVarQuery(uidName, uri) ==
    [name |-> uidName, kind |-> "entity", of |-> <<>>, a |-> uri, b |-> <<>>, c |-> <<>>, key |-> "uri"]

\* `name as var(func: eq(<blankNode>, "label")) @filter(uid_in(container,
\*  uid(containerUidName)) and eq(<dgraph.type>, "EntityData"))`
blankNodeUidVarQuery(uidName, containerUidName, blankNodeName) ==
    [name |-> uidName, kind |-> "blankNode", of |-> containerUidName,
     a |-> blankNodeName, b |-> <<>>, c |-> <<>>, key |-> "blankNode"]

\* the block without its filter on the type
dataOfTypeInEntityQueryAnyType(entityUidName, dgraphType) ==
    [name |-> entityUidName \o <<dgraphType>>, kind |-> "dataIn", of |-> entityUidName,
     a |-> <<>>, b |-> <<>>, c |-> <<>>, key |-> "container"]

\* `entityType as var(func: has(container)) @filter(uid_in(container,
\*  uid(entity)) and eq(<dgraph.type>, "Type"))`
dataOfTypeInEntityQuery(entityUidName, dgraphType) ==
    [name |-> entityUidName \o <<dgraphType>>, kind |-> "dataOfType", of |-> entityUidName,
     a |-> <<dgraphType>>, b |-> <<>>, c |-> <<>>, key |-> "dgraph.type"]

\* `dataInEntity as var(func: has(container)) @filter(uid_in(container, uid(entity)))`
dataInEntityQuery(uidName, entityUidName) ==
    [name |-> uidName, kind |-> "dataIn", of |-> entityUidName,
     a |-> <<>>, b |-> <<>>, c |-> <<>>, key |-> "container"]

\* `name as var(func: eq(<key>, "value")) @filter(eq(<language>, "lang")
\*  and eq(<datatype>, "datatype"))`
literalUidVarQuery(uidName, key, value, language, datatype) ==
    [name |-> uidName, kind |-> "literal", of |-> <<>>,
     a |-> value, b |-> language, c |-> datatype, key |-> key]

\* rdfQuad.object.value.replace(/"/gu, '\\\"')
RECURSIVE escapeQuotes(_)
escapeQuotes(value) ==
    IF value = <<>> THEN <<>>
    ELSE IF Head(value) = "\"" THEN <<"\\", "\"">> \o escapeQuotes(Tail(value))
    ELSE <<Head(value)>> \o escapeQuotes(Tail(value))

\* groupQuadsBySubject: the distinct subject values in order of first
\* appearance, and the quads of one of them
RECURSIVE SubjectKeys(_)
SubjectKeys(quads) ==
    IF quads = <<>> THEN <<>>
    ELSE LET rest == SubjectKeys(SelectSeq(Tail(quads),
                        LAMBDA q : q.subject.value # Head(quads).subject.value))
         IN <<Head(quads).subject.value>> \o rest

groupQuadsBySubject(quads) ==
    LET keys == SubjectKeys(quads) IN
    [i \in 1..Len(keys) |-> SelectSeq(quads, LAMBDA q : q.subject.value = keys[i])]

\* the value statement alone
literalStatementsValueOnly(uidVar, key, value, object) ==
    <<NQuad(Uid(uidVar), key, Str(value))>>

\* the set statements on the node of a literal: its value slot, its
\* language and its datatype
literalStatements(uidVar, key, value, object) ==
    <<NQuad(Uid(uidVar), key, Str(value)),
      NQuad(Uid(uidVar), "language", Str(object.language)),
      NQuad(Uid(uidVar), "datatype", Str(object.datatype))>>

\* the statements of one quad (index j, from 0) of the subject written as
\* the blank node blankNodeName
quadStatements(rdfQuad, j, blankNodeName, containerUidName) ==
    LET uidVar == blankNodeName \o Digits(j)
        pred == rdfQuad.predicate.value[1]
    IN
    IF rdfQuad.object.termType = "Literal" THEN
        LET key == literalDatatypeToPrimitivePredicate(rdfQuad.object.datatype)
            value == escapeQuotes(rdfQuad.object.value)
        IN [queries |-> <<literalUidVarQuery(uidVar, key, value, rdfQuad.object.language,
                                              rdfQuad.object.datatype)>>,
            setNquads |-> <<NQuad(BNode(blankNodeName), pred, Uid(uidVar))>> \o
                          literalStatements(uidVar, key, value, rdfQuad.object),
            delNquads |-> <<>>]
    ELSE IF rdfQuad.object.termType = "NamedNode" THEN
        [queries |-> <<entityUidVarQuery(uidVar, rdfQuad.object.value)>>,
         setNquads |-> <<NQuad(BNode(blankNodeName), pred, Uid(uidVar)),
                         NQuad(Uid(uidVar), "uri", Str(rdfQuad.object.value)),
                         NQuad(Uid(uidVar), "dgraph.type", Str(<<"Entity">>))>>,
         delNquads |-> <<>>]
    ELSE IF rdfQuad.object.termType = "BlankNode" THEN
        [queries |-> <<blankNodeUidVarQuery(uidVar, containerUidName, rdfQuad.object.value)>>,
         setNquads |-> <<NQuad(BNode(blankNodeName), pred, Uid(uidVar)),
                         NQuad(Uid(uidVar), "blankNode", Str(rdfQuad.object.value)),
                         NQuad(Uid(uidVar), "container", Uid(containerUidName)),
                         NQuad(Uid(uidVar), "dgraph.type", Str(<<"EntityData">>))>>,
         delNquads |-> <<>>]
    ELSE EmptyUpsert

\* the statements of one subject (index i, from 0) and its quads
subjectStatements(quadsWithSameSubject, i, containerUidName, dgraphType) ==
    LET blankNodeName == <<dgraphType>> \o Digits(i)
        first == quadsWithSameSubject[1].subject
        head ==
            [queries |-> <<>>,
             setNquads |->
                <<NQuad(BNode(blankNodeName),
                        IF first.termType = "BlankNode" THEN "blankNode" ELSE "uri",
                        Str(first.value)),
                  NQuad(BNode(blankNodeName), "container", Uid(containerUidName)),
                  NQuad(BNode(blankNodeName), "dgraph.type", Str(<<dgraphType>>))>>,
             delNquads |-> <<>>]
    IN Merge(head,
             MergeAll([j \in 1..Len(quadsWithSameSubject) |->
                quadStatements(quadsWithSameSubject[j], j - 1, blankNodeName, containerUidName)]))

setNQuadsAndQueriesForQuadsBySubjectInContainer(quads, containerUidName, dgraphType) ==
    LET groups == groupQuadsBySubject(quads) IN
    MergeAll([i \in 1..Len(groups) |->
        subjectStatements(groups[i], i - 1, containerUidName, dgraphType)])

replaceDataOfTypeInUidName(quads, entityUidName, dgraphType) ==
    Merge([queries |-> <<dataOfTypeInEntityQuery(entityUidName, dgraphType)>>,
           setNquads |-> <<>>,
           delNquads |-> <<NQuad(Uid(entityUidName \o <<dgraphType>>), "*", Star)>>],
          setNQuadsAndQueriesForQuadsBySubjectInContainer(quads, entityUidName, dgraphType))

NoParent == <<>>

NoTriples == <<[none |-> TRUE]>>

\* sendDgraphUpsert up to the database call: the upsert it builds.
\* parent = NoParent for the root; triples = NoTriples for a container.
buildUpsert(name, metadataQuads, parent, triples) ==
    LET entityUidName == <<"entity">>
        parentEntityUidName == <<"parent">>
        own == [queries |-> <<entityUidVarQuery(entityUidName, name)>>,
                setNquads |-> <<NQuad(Uid(entityUidName), "uri", Str(name)),
                                NQuad(Uid(entityUidName), "dgraph.type", Str(<<"Entity">>))>>,
                delNquads |-> <<>>]
        meta == replaceDataOfTypeInUidName(metadataQuads, entityUidName, "Metadata")
        par == IF parent # NoParent
               THEN [queries |-> <<entityUidVarQuery(parentEntityUidName, parent)>>,
                     setNquads |-> <<NQuad(Uid(parentEntityUidName), "uri", Str(parent)),
                                     NQuad(Uid(parentEntityUidName), "dgraph.type", Str(<<"Entity">>)),
                                     NQuad(Uid(entityUidName), "container", Uid(parentEntityUidName))>>,
                     delNquads |-> <<>>]
               ELSE EmptyUpsert
        data == IF triples # NoTriples
                THEN replaceDataOfTypeInUidName(triples, entityUidName, "EntityData")
                ELSE EmptyUpsert
    IN MergeAll(<<own, meta, par, data>>)

\* the delete routine with its parent branch taken for every identifier
buildDeleteParentAlways(name, parent) ==
    LET entityUidName == <<"entity">>
        parentUidName == <<"parent">>
        dataInEntityUidName == <<"dataInEntity">>
    IN [queries |-> <<entityUidVarQuery(entityUidName, name),
                      dataInEntityQuery(dataInEntityUidName, entityUidName),
                      entityUidVarQuery(parentUidName, parent)>>,
        setNquads |-> <<>>,
        delNquads |-> <<NQuad(Uid(entityUidName), "*", Star),
                        NQuad(Uid(dataInEntityUidName), "*", Star),
                        NQuad(Uid(entityUidName), "container", Uid(parentUidName))>>]

\* sendDgraphDelete up to the database call: the upsert it builds
buildDelete(name, parent) ==
    LET entityUidName == <<"entity">>
        parentUidName == <<"parent">>
        dataInEntityUidName == <<"dataInEntity">>
        own == [queries |-> <<entityUidVarQuery(entityUidName, name),
                              dataInEntityQuery(dataInEntityUidName, entityUidName)>>,
                setNquads |-> <<>>,
                delNquads |-> <<NQuad(Uid(entityUidName), "*", Star),
                                NQuad(Uid(dataInEntityUidName), "*", Star)>>]
        par == IF parent # NoParent
               THEN [queries |-> <<entityUidVarQuery(parentUidName, parent)>>,
                     setNquads |-> <<>>,
                     delNquads |-> <<NQuad(Uid(entityUidName), "container", Uid(parentUidName))>>]
               ELSE EmptyUpsert
    IN Merge(own, par)

-----------------------------------------------------------------------------
(* The database as the accessor uses it.  The store is a set of edges      *)
(* [s, p, u, v]: node s has predicate p with the node u as its target      *)
(* (u > 0), or with the value v (u = 0).  A node exists while it has an    *)
(* edge.  The request of sendDgraphUpsert is one transaction with          *)
(* commitNow: its query blocks are evaluated on the state before the       *)
(* mutation, its delete statements are applied before its set statements.  *)

UidEdge(s, p, u) == [s |-> s, p |-> p, u |-> u, v |-> <<>>]

ValueEdge(s, p, v) == [s |-> s, p |-> p, u |-> 0, v |-> v]

\* DEFAULT_SCHEMA: the value slots, uri and container hold one value per
\* node; so does a predicate first written with a string (blankNode,
\* language, datatype).  dgraph.type and the predicates first written
\* with a uid (the RDF predicates) are lists.
SingleValued ==
    {"_value.#i", "_value.#", "_value.?", "_value.%", "_value.%dt", "uri", "container",
     "blankNode", "language", "datatype"}

Malformed == [ok |-> FALSE, val |-> <<>>]

WellFormed(value) == [ok |-> TRUE, val |-> value]

\* the line feed character
LF == "LF"

\* What the database reads out of the text the accessor puts between two
\* double quotes ("${value}", DgraphDataAccessor.ts:798 and :802): a
\* backslash takes the next character with it, a bare double quote ends
\* the string before the text does.
RECURSIVE Unquote(_)
Unquote(text) ==
    IF text = <<>> THEN WellFormed(<<>>)
    ELSE IF Head(text) = "\"" THEN Malformed
    ELSE IF Head(text) = "\\" THEN
        IF Len(text) < 2 THEN Malformed
        ELSE LET rest == Unquote(SubSeq(text, 3, Len(text))) IN
             IF ~rest.ok THEN Malformed
             ELSE IF text[2] \in {"\\", "\""} THEN WellFormed(<<text[2]>> \o rest.val)
             ELSE IF text[2] = "n" THEN WellFormed(<<LF>> \o rest.val)
             ELSE Malformed
    ELSE LET rest == Unquote(Tail(text)) IN
         IF rest.ok THEN WellFormed(<<Head(text)>> \o rest.val) ELSE Malformed

RECURSIVE StripZeros(_)
StripZeros(digits) ==
    IF Len(digits) > 1 /\ Head(digits) = "0" THEN StripZeros(Tail(digits)) ELSE digits

RECURSIVE StripTrailingZeros(_)
StripTrailingZeros(digits) ==
    IF digits # <<>> /\ digits[Len(digits)] = "0"
    THEN StripTrailingZeros(SubSeq(digits, 1, Len(digits) - 1)) ELSE digits

IsDigits(text) == text # <<>> /\ Range(text) \subseteq Range(DigitChars)

\* `<_value.#i>: int` holds a number, which the response JSON and `${...}`
\* print without leading zeros
IntSlotValue(value) ==
    IF IsDigits(value) THEN WellFormed(StripZeros(value)) ELSE Malformed

\* `<_value.#>: float` holds a number, which the response JSON and `${...}`
\* print in the shortest form
FloatSlotValue(value) ==
    LET dots == {i \in 1..Len(value) : value[i] = "."}
        dot == IF dots = {} THEN Len(value) + 1 ELSE CHOOSE i \in dots : TRUE
        whole == SubSeq(value, 1, dot - 1)
        fraction == SubSeq(value, dot + 1, Len(value))
        shortest == StripTrailingZeros(fraction)
    IN IF Cardinality(dots) <= 1 /\ IsDigits(whole) /\ (dots = {} \/ IsDigits(fraction))
       THEN WellFormed(StripZeros(whole) \o (IF shortest = <<>> THEN <<>> ELSE <<".">> \o shortest))
       ELSE Malformed

\* `<_value.?>: bool` holds a truth value, which `${...}` prints as true or false
BoolSlotValue(value) ==
    IF value \in {<<"true">>, <<"1">>} THEN WellFormed(<<"true">>)
    ELSE IF value \in {<<"false">>, <<"0">>} THEN WellFormed(<<"false">>)
    ELSE Malformed

\* the date and the time of day a text is made of
Dates == {"2022-03-15"}

Times == {"T20:17:55Z"}

\* `<_value.%dt>: dateTime` holds an instant, which the response JSON prints
\* with its time of day; a date is the instant its day begins
DateTimeSlotValue(value) ==
    IF Len(value) = 1 /\ value[1] \in Dates THEN WellFormed(value \o <<"T00:00:00Z">>)
    ELSE IF Len(value) = 2 /\ value[1] \in Dates /\ value[2] \in Times THEN WellFormed(value)
    ELSE Malformed

\* the value a slot holds for a text; `<_value.%>: string` and the other
\* predicates hold the text as it is
SlotValue(key, value) ==
    CASE key = "_value.#i" -> IntSlotValue(value)
      [] key = "_value.#" -> FloatSlotValue(value)
      [] key = "_value.?" -> BoolSlotValue(value)
      [] key = "_value.%dt" -> DateTimeSlotValue(value)
      [] OTHER -> WellFormed(value)

\* a quoted text as the value of predicate p
Quoted(p, text) ==
    LET u == Unquote(text) IN IF u.ok THEN SlotValue(p, u.val) ELSE Malformed

\* the nodes whose predicate p holds the value
WithValue(st, p, value) == {e.s : e \in {x \in st : x.p = p /\ x.u = 0 /\ x.v = value}}

\* has(container) with uid_in(container, uid(var)) for the nodes `of` of the variable
InContainer(st, of) == {e.s : e \in {x \in st : x.p = "container" /\ x.u \in of}}

\* the nodes bound to the variable `name` by the evaluated blocks `binds`
Bound(binds, name) == UNION {b.nodes : b \in {x \in binds : x.name = name}}

\* the nodes one query block selects in st; `binds` are the evaluated
\* blocks the block can refer to with uid(var)
evalQuery(st, binds, q) ==
    CASE q.kind = "entity" ->
            WithValue(st, "uri", Quoted("uri", q.a).val)
                \cap WithValue(st, "dgraph.type", <<"Entity">>)
      [] q.kind = "dataOfType" ->
            InContainer(st, Bound(binds, q.of)) \cap WithValue(st, "dgraph.type", q.a)
      [] q.kind = "dataIn" ->
            InContainer(st, Bound(binds, q.of))
      [] q.kind = "blankNode" ->
            WithValue(st, "blankNode", Quoted("blankNode", q.a).val)
                \cap InContainer(st, Bound(binds, q.of))
                \cap WithValue(st, "dgraph.type", <<"EntityData">>)
      [] q.kind = "literal" ->
            WithValue(st, q.key, Quoted(q.key, q.a).val)
                \cap WithValue(st, "language", Quoted("language", q.b).val)
                \cap WithValue(st, "datatype", Quoted("datatype", q.c).val)

\* every query block of the request evaluated on st: the blocks that
\* refer to no variable first, then the blocks that refer to one of them
evalQueries(st, queries) ==
    LET roots == {[name |-> queries[i].name, nodes |-> evalQuery(st, {}, queries[i])] :
                    i \in {j \in 1..Len(queries) : queries[j].of = <<>>}}
    IN roots \cup {[name |-> queries[i].name, nodes |-> evalQuery(st, roots, queries[i])] :
                    i \in {j \in 1..Len(queries) : queries[j].of # <<>>}}

\* the quoted texts of a query block, each with the predicate it is compared to
QueryTexts(q) ==
    CASE q.kind = "entity" -> {<<"uri", q.a>>}
      [] q.kind = "blankNode" -> {<<"blankNode", q.a>>}
      [] q.kind = "literal" -> {<<q.key, q.a>>, <<"language", q.b>>, <<"datatype", q.c>>}
      [] OTHER -> {}

\* the database can parse the request
RequestOk(up) ==
    /\ \A i \in 1..Len(up.queries) : \A t \in QueryTexts(up.queries[i]) : Quoted(t[1], t[2]).ok
    /\ \A i \in 1..Len(up.setNquads) :
          up.setNquads[i].o.k = "str" => Quoted(up.setNquads[i].p, up.setNquads[i].o.n).ok

\* the sequence without the repetitions of its elements
Dedupe(seq) ==
    LET firsts == {i \in 1..Len(seq) : \A j \in 1..(i - 1) : seq[j] # seq[i]}
        nth(k) == CHOOSE i \in firsts : Cardinality({j \in firsts : j < i}) = k - 1
    IN [k \in 1..Cardinality(firsts) |-> seq[nth(k)]]

\* the references of the set statements that stand for a node to create:
\* a blank node _:name, and uid(var) of a variable bound to no node
Creates(binds, up) ==
    LET refs == Flatten([i \in 1..Len(up.setNquads) |->
                    <<up.setNquads[i].s>> \o
                    (IF up.setNquads[i].o.k = "str" THEN <<>> ELSE <<up.setNquads[i].o>>)])
    IN Dedupe(SelectSeq(refs, LAMBDA r :
            \/ r.k = "blank"
            \/ r.k = "uid" /\ Bound(binds, r.n) = {}))

\* the uids from `next` on go to the nodes to create, in the order of
\* the statements
Allocate(created, next) == {[ref |-> created[i], uid |-> next + i - 1] : i \in 1..Len(created)}

\* the nodes a reference of a set statement stands for
Resolve(binds, alloc, r) ==
    IF \E a \in alloc : a.ref = r
    THEN {a.uid : a \in {x \in alloc : x.ref = r}}
    ELSE Bound(binds, r.n)

\* a delete statement covers the edge e
Deletes(binds, d, e) ==
    /\ e.s \in Bound(binds, d.s.n)
    /\ \/ d.p = "*"
       \/ /\ e.p = d.p
          /\ \/ d.o.k = "star"
             \/ d.o.k = "uid" /\ e.u \in Bound(binds, d.o.n)

\* the maximum of a non-empty set of numbers
Max(S) == CHOOSE m \in S : \A n \in S : n <= m

\* the edges a set statement writes
setEdges(binds, alloc, nq) ==
    LET subjects == Resolve(binds, alloc, nq.s)
        targets == IF nq.o.k = "str" THEN {} ELSE Resolve(binds, alloc, nq.o)
    IN IF nq.o.k = "str"
       THEN {ValueEdge(s, nq.p, Quoted(nq.p, nq.o.n).val) : s \in subjects}
       ELSE IF nq.p \in SingleValued
       THEN {UidEdge(s, nq.p, Max(targets)) : s \in subjects}
       ELSE {UidEdge(s, nq.p, t) : s \in subjects, t \in targets}

\* a set statement on a predicate that holds one value replaces the edge e
overwrites(binds, alloc, nq, e) ==
    nq.p = e.p /\ nq.p \in SingleValued /\ e.s \in Resolve(binds, alloc, nq.s)

\* one set statement applied to the edges es
applySet(es, binds, alloc, nq) ==
    {e \in es : ~overwrites(binds, alloc, nq, e)} \cup setEdges(binds, alloc, nq)

\* the set statements applied to the edges es in their order: an edge
\* stays unless a statement replaces it, an edge a statement writes stays
\* unless a later statement replaces it
applySets(es, binds, alloc, nqs) ==
    {e \in es : ~\E i \in 1..Len(nqs) : overwrites(binds, alloc, nqs[i], e)}
        \cup UNION {{e \in setEdges(binds, alloc, nqs[i]) :
                        ~\E j \in (i + 1)..Len(nqs) : overwrites(binds, alloc, nqs[j], e)} :
                    i \in 1..Len(nqs)}

\* transaction.doRequest(request) on a database in state st whose next
\* free uid is `next`: the state it commits, or the rejection of a
\* request the database cannot parse
doRequest(st, next, up) ==
    IF ~RequestOk(up) THEN [ok |-> FALSE, store |-> st, next |-> next]
    ELSE LET binds == evalQueries(st, up.queries)
             created == Creates(binds, up)
             alloc == Allocate(created, next)
             kept == {e \in st : ~\E i \in 1..Len(up.delNquads) :
                                        Deletes(binds, up.delNquads[i], e)}
         IN [ok |-> TRUE,
             store |-> applySets(kept, binds, alloc, up.setNquads),
             next |-> next + Len(created)]

\* the variable names that more than one query block of the request declares
DeclaredTwice(up) ==
    {up.queries[i].name : i \in {x \in 1..Len(up.queries) :
        \E y \in 1..Len(up.queries) : y # x /\ up.queries[y].name = up.queries[x].name}}

\* what the database can answer to the request: when two blocks declare
\* one variable it may reject the request, or take the variable as bound
\* to the nodes of both blocks
requestOutcomes(st, next, up) ==
    {doRequest(st, next, up)}
        \cup (IF DeclaredTwice(up) # {}
              THEN {[ok |-> FALSE, store |-> st, next |-> next]} ELSE {})

-----------------------------------------------------------------------------
(* Reading: the response of the data query and its decoding *)

\* the JSON object of node n has the key p
HasKey(st, n, p) == \E e \in st : e.s = n /\ e.p = p

\* entity[p] of a key holding one value
Get(st, n, p) == (CHOOSE e \in st : e.s = n /\ e.p = p /\ e.u = 0).v

\* the keys of the JSON object of node n under expand(_userpredicate_)
Keys(st, n) == {e.p : e \in {x \in st : x.s = n}}

\* the keys of node n that hold nested objects
ObjectKeys(st, n) == {e.p : e \in {x \in st : x.s = n /\ x.u # 0}}

\* the nested objects under key p of node n: the inner
\* expand(_userpredicate_) has no block of its own, so a nested object
\* shows its values only, and a target without any is left out
Nested(st, n, p) == {e.u : e \in {x \in st : x.s = n /\ x.p = p /\ x.u # 0 /\
                                     \E y \in st : y.s = x.u /\ y.u = 0}}

\* `entity as var(func: eq(<uri>, $identifier)) @filter(eq(<dgraph.type>, "Entity"))`
\* `data(func: has(container)) @filter(uid_in(container, uid(entity)) and
\*  eq(<dgraph.type>, dgraphType))`
dataQuery(st, identifier, dgraphType) ==
    LET entity == WithValue(st, "uri", identifier) \cap WithValue(st, "dgraph.type", <<"Entity">>)
    IN InContainer(st, entity) \cap WithValue(st, "dgraph.type", <<dgraphType>>)

\* the largest index of ch in seq, 0 when there is none
LastIndexOf(seq, ch) ==
    IF \E i \in 1..Len(seq) : seq[i] = ch
    THEN Max({i \in 1..Len(seq) : seq[i] = ch}) ELSE 0

\* String.prototype.toLowerCase on the language tags in use
toLowerCase(tag) == [i \in DOMAIN tag |-> IF tag[i] = "EN" THEN "en" ELSE tag[i]]

\* n3's `new Literal(id)`: value, language and datatype are read off the
\* id around its last double quote
LiteralFromId(id) ==
    LET last == LastIndexOf(id, "\"")
        after == SubSeq(id, last + 1, Len(id))
    IN Literal(SubSeq(id, 2, last - 1),
               IF after # <<>> /\ Head(after) = "@" THEN toLowerCase(Tail(after)) ELSE <<>>,
               IF after # <<>> /\ Head(after) = "^" THEN SubSeq(after, 3, Len(after))
               ELSE IF after # <<>> /\ Head(after) = "@" THEN RDF_LANGSTRING
               ELSE XSD_STRING)

ValueKeys == {"_value.#i", "_value.#", "_value.?", "_value.%", "_value.%dt"}

dgraphNodeToLiteral(st, n) ==
    LET found == Keys(st, n) \cap ValueKeys
        value == IF found = {} THEN <<"undefined">>
                 ELSE Get(st, n, CHOOSE k \in found : TRUE)
        datatype == IF HasKey(st, n, "datatype") THEN Get(st, n, "datatype") ELSE <<>>
        language == IF HasKey(st, n, "language") THEN Get(st, n, "language") ELSE <<>>
        isNonString == datatype # <<>> /\ datatype # XSD_STRING /\ datatype # RDF_LANGSTRING
        datatypePart == IF isNonString THEN <<"^", "^">> \o datatype ELSE <<>>
        languagePart == IF language # <<>> THEN <<"@">> \o language ELSE <<>>
    IN LiteralFromId(<<"\"">> \o value \o <<"\"">> \o datatypePart \o languagePart)

\* 'blankNode' in entity && Boolean(entity.blankNode)
IsBlankNode(st, n) == HasKey(st, n, "blankNode") /\ Get(st, n, "blankNode") # <<>>

dgraphNodeToTerm(st, n) ==
    IF IsBlankNode(st, n) THEN BlankNode(Get(st, n, "blankNode"))
    ELSE IF HasKey(st, n, "uri") THEN NamedNode(Get(st, n, "uri"))
    ELSE dgraphNodeToLiteral(st, n)

\* the decoding that goes on from a nested object as a new subject
rdfQuadsFromJsonArrayExtraHop(st, json) ==
    LET Hop(nodes) ==
            UNION {
                LET term == IF IsBlankNode(st, n) THEN BlankNode(Get(st, n, "blankNode"))
                            ELSE NamedNode(IF HasKey(st, n, "uri") THEN Get(st, n, "uri")
                                           ELSE <<"undefined">>)
                IN UNION {{Quad(term, NamedNode(<<rdfPredicate>>), dgraphNodeToTerm(st, m),
                                DefaultGraph) : m \in Nested(st, n, rdfPredicate)} :
                          rdfPredicate \in ObjectKeys(st, n) \ NON_RDF_KEYS}
                : n \in {x \in nodes : HasKey(st, x, "uri") \/ HasKey(st, x, "blankNode")}}
        nested == UNION {Nested(st, n, p) : n \in json, p \in {e.p : e \in st} \ NON_RDF_KEYS}
    IN Hop(json) \cup Hop(nested)

\* the quads decoded from the response objects `json` (nodes of st)
rdfQuadsFromJsonArray(st, json) ==
    UNION {
        LET term == IF IsBlankNode(st, n) THEN BlankNode(Get(st, n, "blankNode"))
                    ELSE NamedNode(IF HasKey(st, n, "uri") THEN Get(st, n, "uri")
                                   ELSE <<"undefined">>)
        IN UNION {{Quad(term, NamedNode(<<rdfPredicate>>), dgraphNodeToTerm(st, m), DefaultGraph) :
                      m \in Nested(st, n, rdfPredicate)} :
                  rdfPredicate \in ObjectKeys(st, n) \ NON_RDF_KEYS}
        : n \in {x \in json : HasKey(st, x, "uri") \/ HasKey(st, x, "blankNode")}}

-----------------------------------------------------------------------------
(* Identifiers.  A path is the sequence of its segments; the identifier    *)
(* strategy is the single-root strategy of the host framework.             *)

Root == <<"http://test.com/">>

Containers == {Root, Root \o <<"c/">>}

Documents == {Root \o <<"doc">>}

isRootContainer(identifier) == identifier = Root

getParentContainer(identifier) == SubSeq(identifier, 1, Len(identifier) - 1)

getRelatedNames(identifier) ==
    IF isRootContainer(identifier) THEN [name |-> identifier, parent |-> NoParent]
    ELSE [name |-> identifier, parent |-> getParentContainer(identifier)]

-----------------------------------------------------------------------------
(* The accessor operations on the database, for one caller that runs them  *)
(* one after the other and a database that answers: the alter call of      *)
(* the first operation succeeds, and a transaction commits at its first    *)
(* attempt unless the database cannot parse the request.                   *)

MaxOps == 2

MaxQuads == 2

TheCaller == 1

NotImplementedHttpError ==
    [error |-> "NotImplementedHttpError",
     message |-> "Only triples in the default graph are supported."]

\* the rejection of a request the database cannot parse
RequestError == [error |-> "Error", message |-> "2 UNKNOWN: request rejected"]

Ok == [error |-> "none", message |-> ""]

SubjectS == NamedNode(Root \o <<"doc">>)

SubjectB == BlankNode(<<"b">>)

PredicateP == NamedNode(<<"http://test.com/p">>)

NamedGraph == <<"http://test.com/graph">>

\* the quads the documents written are made of: an IRI object (the document
\* itself), a literal holding a backslash, a blank node subject with a
\* language-tagged literal holding a double quote, and a quad in a named
\* graph
QuadUniverse ==
    {Quad(SubjectS, PredicateP, NamedNode(Root \o <<"doc">>), DefaultGraph),
     Quad(SubjectS, PredicateP, Literal(<<"\\", "n">>, <<>>, XSD_STRING), DefaultGraph),
     Quad(SubjectB, PredicateP, Literal(<<"n", "\"">>, <<"en">>, RDF_LANGSTRING), DefaultGraph),
     Quad(SubjectS, PredicateP, Literal(<<"n">>, <<>>, XSD_STRING), NamedGraph)}

\* the data streams: up to MaxQuads different quads in any order
RECURSIVE QuadSeqs(_)
QuadSeqs(n) ==
    IF n = 0 THEN {<<>>}
    ELSE LET shorter == QuadSeqs(n - 1) IN
         shorter \cup {Append(qs, q) : qs \in {x \in shorter : Len(x) = n - 1},
                                        q \in QuadUniverse}

DataStreams == {qs \in QuadSeqs(MaxQuads) : \A i, j \in 1..Len(qs) : i # j => qs[i] # qs[j]}

RDF_TYPE == <<"http://www.w3.org/1999/02/22-rdf-syntax-ns#type">>

LDP_RESOURCE == <<"http://www.w3.org/ns/ldp#Resource">>

\* the path ends with a slash
isContainerIdentifier(identifier) ==
    identifier[Len(identifier)] \in {"http://test.com/", "c/"}

\* the metadata objects handed to the writes of `identifier`: its type and
\* its content type, and for a container a reference to the document and a
\* literal the documents hold too
Metadatas(identifier) ==
    LET type == Quad(NamedNode(identifier), NamedNode(RDF_TYPE), NamedNode(LDP_RESOURCE),
                     DefaultGraph)
        contentType == Quad(NamedNode(identifier), NamedNode(CONTENT_TYPE),
                            Literal(INTERNAL_QUADS, <<>>, XSD_STRING), DefaultGraph)
        reference == Quad(NamedNode(identifier), PredicateP, NamedNode(Root \o <<"doc">>),
                          DefaultGraph)
        shared == Quad(NamedNode(identifier), PredicateP,
                       Literal(<<"n", "\"">>, <<"en">>, RDF_LANGSTRING), DefaultGraph)
    IN IF isContainerIdentifier(identifier)
       THEN {<<type, contentType, reference, shared>>}
       ELSE {<<type, contentType>>}

\* the metadata left as it is
removeAllNothing(metadata, predicate) == metadata

\* metadata.removeAll(namedNode(predicate))
removeAll(metadata, predicate) ==
    SelectSeq(metadata, LAMBDA q : q.predicate.value # predicate)

\* triples.some((triple) => !def.equals(triple.graph))
someNotInDefaultGraphFirstOnly(triples) ==
    triples # <<>> /\ triples[1].graph # DefaultGraph

someNotInDefaultGraph(triples) ==
    \E i \in 1..Len(triples) : triples[i].graph # DefaultGraph

NotFoundHttpError == [error |-> "NotFoundHttpError", message |-> ""]

NoPrev == [kind |-> "none", id |-> <<>>, out |-> Ok]

\* no response handed to the decoder
NoJson == [data |-> {}, tree |-> {}]

NoOp == [kind |-> "none", id |-> <<>>, quads |-> <<>>, metadata |-> <<>>, out |-> Ok,
         result |-> {}, children |-> <<>>, prev |-> NoPrev, up |-> EmptyUpsert,
         json |-> NoJson]

ReadKinds == {"getData", "getMetadata", "getChildren"}

\* a history is a bounded sequence of writes and deletes, observed by one
\* read at its end
CanWrite == nops < MaxOps /\ lastOp.kind \notin ReadKinds

\* ensureClientIsInitialized of the caller: the first operation calls
\* initializeClient, whose alter call succeeds
ensureInitialized ==
    /\ clientInitialized' = TRUE
    /\ alterLog' = IF clientInitialized THEN alterLog
                   ELSE Append(alterLog, [by |-> TheCaller, out |-> "ok"])

\* sendDgraphClientUpsert: the guard, then DgraphClient.sendDgraphUpsert with
\* its one transaction
clientUpsert(kind, identifier, quads, metadata, up) ==
    \E done \in requestOutcomes(store, nextUid, up) :
    /\ ensureInitialized
    /\ gtxns' = [gtxns EXCEPT ![TheCaller] = @ + 1]
    /\ store' = done.store
    /\ nextUid' = done.next
    /\ lastOp' = [kind |-> kind, id |-> identifier, quads |-> quads, metadata |-> metadata,
                  out |-> IF done.ok THEN Ok ELSE RequestError, result |-> {},
                  children |-> <<>>, prev |-> NoPrev, up |-> up, json |-> NoJson]

writeDocument(identifier, data, metadata) ==
    /\ CanWrite
    /\ nops' = nops + 1
    /\ LET names == getRelatedNames(identifier) IN
       IF someNotInDefaultGraph(data)
       THEN /\ lastOp' = [kind |-> "writeDocument", id |-> identifier, quads |-> data,
                          metadata |-> metadata, out |-> NotImplementedHttpError,
                          result |-> {}, children |-> <<>>, prev |-> NoPrev,
                          up |-> EmptyUpsert, json |-> NoJson]
            /\ UNCHANGED <<store, nextUid, clientInitialized, alterLog, gtxns>>
       ELSE clientUpsert("writeDocument", identifier, data, metadata,
                buildUpsert(names.name, removeAll(metadata, CONTENT_TYPE), names.parent, data))
    /\ UNCHANGED <<initializingClient, gpc, gop, waitTime, gresult, arrived, sawAlterFail, tvars>>

writeContainer(identifier, metadata) ==
    /\ CanWrite
    /\ nops' = nops + 1
    /\ LET names == getRelatedNames(identifier) IN
       clientUpsert("writeContainer", identifier, <<>>, metadata,
            buildUpsert(names.name, metadata, names.parent, NoTriples))
    /\ UNCHANGED <<initializingClient, gpc, gop, waitTime, gresult, arrived, sawAlterFail, tvars>>

deleteResource(identifier) ==
    /\ CanWrite
    /\ nops' = nops + 1
    /\ LET names == getRelatedNames(identifier) IN
       clientUpsert("deleteResource", identifier, <<>>, <<>>,
                    buildDelete(names.name, names.parent))
    /\ UNCHANGED <<initializingClient, gpc, gop, waitTime, gresult, arrived, sawAlterFail, tvars>>

\* sendDgraphClientQuery of a read after an operation: the guard and one
\* query transaction; the operation before and its input stay on record
clientQuery(kind, identifier, out, result, children) ==
    /\ lastOp.kind \notin ReadKinds
    /\ ensureInitialized
    /\ gtxns' = [gtxns EXCEPT ![TheCaller] = @ + 1]
    /\ lastOp' = [kind |-> kind, id |-> identifier, quads |-> lastOp.quads,
                  metadata |-> lastOp.metadata, out |-> out, result |-> result,
                  children |-> children,
                  prev |-> [kind |-> lastOp.kind, id |-> lastOp.id, out |-> lastOp.out],
                  up |-> EmptyUpsert, json |-> NoJson]
    /\ UNCHANGED <<store, nextUid, nops>>
    /\ UNCHANGED <<initializingClient, gpc, gop, waitTime, gresult, arrived, sawAlterFail, tvars>>

\* the quads getData decodes for `identifier` in the database st
dataOf(st, identifier) ==
    rdfQuadsFromJsonArray(st, dataQuery(st, identifier, "EntityData"))

getData(identifier) ==
    clientQuery("getData", identifier, Ok, dataOf(store, identifier), <<>>)

\* `set contentType` of a metadata object of `identifier`: the content-type
\* quads of the identifier are replaced by one
setContentType(quads, identifier, value) ==
    {q \in quads : ~(q.subject = NamedNode(identifier) /\ q.predicate.value = CONTENT_TYPE)}
        \cup {Quad(NamedNode(identifier), NamedNode(CONTENT_TYPE),
                   Literal(value, <<>>, XSD_STRING), DefaultGraph)}

\* the quads decoded from the Metadata set of `identifier` in the database st
storedMetadataOf(st, identifier) ==
    rdfQuadsFromJsonArray(st, dataQuery(st, identifier, "Metadata"))

\* the answer without the test of `quads.length === 0`
metadataOfNeverNotFound(st, identifier) ==
    LET quads == storedMetadataOf(st, identifier) IN
    [out |-> Ok,
     quads |-> IF ~isContainerIdentifier(identifier)
               THEN setContentType(quads, identifier, INTERNAL_QUADS)
               ELSE quads]

\* what getMetadata answers for `identifier` in the database st
metadataOf(st, identifier) ==
    LET quads == storedMetadataOf(st, identifier) IN
    IF quads = {} THEN [out |-> NotFoundHttpError, quads |-> {}]
    ELSE [out |-> Ok,
          quads |-> IF ~isContainerIdentifier(identifier)
                    THEN setContentType(quads, identifier, INTERNAL_QUADS)
                    ELSE quads]

getMetadata(identifier) ==
    LET answer == metadataOf(store, identifier) IN
    clientQuery("getMetadata", identifier, answer.out, answer.quads, <<>>)

\* `entity as var(func: eq(<uri>, $identifier)) @filter(eq(<dgraph.type>, "Entity"))`
\* `data(func: eq(<dgraph.type>, "Entity")) @filter(uid_in(<container>, uid(entity))) { uri }`
childrenQuery(st, identifier) ==
    LET entity == WithValue(st, "uri", identifier) \cap WithValue(st, "dgraph.type", <<"Entity">>)
    IN WithValue(st, "dgraph.type", <<"Entity">>) \cap InContainer(st, entity)

\* the nodes of S in the order of their uids
RECURSIVE InUidOrder(_)
InUidOrder(S) ==
    IF S = {} THEN <<>>
    ELSE LET least == CHOOSE n \in S : \A m \in S : n <= m
         IN <<least>> \o InUidOrder(S \ {least})

\* the identifiers getChildren yields for `identifier` in the database st,
\* one for each object of the response
childrenOf(st, identifier) ==
    LET data == InUidOrder(childrenQuery(st, identifier)) IN
    [i \in DOMAIN data |-> IF HasKey(st, data[i], "uri") THEN Get(st, data[i], "uri")
                           ELSE <<"undefined">>]

getChildren(identifier) ==
    clientQuery("getChildren", identifier, Ok, {}, childrenOf(store, identifier))

\* the lexical values of the literals written one at a time: texts with a
\* double quote and with backslashes, numbers, truth values, an instant
\* and a date
LexicalValues ==
    {<<"n">>, <<"n", "\"">>, <<"\\", "n">>, <<"n", "\\">>, <<"\\", "\"">>, <<"7">>, <<"0", "7">>,
     <<"1", ".", "5">>, <<"1", ".", "0">>, <<"true">>, <<"1">>,
     <<"2022-03-15", "T20:17:55Z">>, <<"2022-03-15">>}

\* the datatypes of the literals without a language: the ones the mapping
\* names, xsd:string, and two it does not name
Datatypes ==
    {XSD_STRING,
     <<"http://www.w3.org/2001/XMLSchema#integer">>,
     <<"http://www.w3.org/2001/XMLSchema#int">>,
     <<"http://www.w3.org/2001/XMLSchema#positiveInteger">>,
     <<"http://www.w3.org/2001/XMLSchema#float">>,
     <<"http://www.w3.org/2001/XMLSchema#double">>,
     <<"http://www.w3.org/2001/XMLSchema#boolean">>,
     <<"http://www.w3.org/2001/XMLSchema#dateTime">>,
     <<"http://www.w3.org/2001/XMLSchema#date">>,
     <<"http://www.w3.org/2001/XMLSchema#decimal">>,
     <<"http://aims.fao.org/aos/agrovoc/AgrovocCode">>}

Literals ==
    {Literal(value, <<>>, datatype) : value \in LexicalValues, datatype \in Datatypes}
        \cup {Literal(value, <<"en">>, RDF_LANGSTRING) : value \in LexicalValues}

\* the data streams of one quad with a literal as its object
LiteralStreams == {<<Quad(SubjectS, PredicateP, literal, DefaultGraph)>> : literal \in Literals}

StoreInit ==
    /\ store = {}
    /\ nextUid = 1
    /\ lastOp = NoOp
    /\ nops = 0

-----------------------------------------------------------------------------
(* Specifications *)

Init == TransportInit /\ GuardInit /\ StoreInit

Next ==
    \/ sendDgraphQuery
    \/ sendDgraphUpsert
    \/ BlockResolves
    \/ BlockRejectsRetry
    \/ BlockRejectsThrow
    \/ Finally
    \/ CallReturns

Spec == Init /\ [][Next]_vars

NextGuard ==
    \E c \in Callers :
        \/ sendDgraphClientQuery(c)
        \/ sendDgraphClientUpsert(c)
        \/ Poll(c)
        \/ AlterResolves(c)
        \/ AlterRejects(c)
        \/ OpenTransaction(c)
        \/ OperationSettles(c)

SpecGuard == Init /\ [][NextGuard]_vars

NextStore ==
    \/ \E identifier \in Documents, data \in DataStreams :
            \E metadata \in Metadatas(identifier) : writeDocument(identifier, data, metadata)
    \/ \E identifier \in Containers :
            \E metadata \in Metadatas(identifier) : writeContainer(identifier, metadata)
    \/ \E identifier \in Containers \cup Documents : deleteResource(identifier)
    \/ \E identifier \in Documents : getData(identifier)
    \/ \E identifier \in Containers \cup Documents : getMetadata(identifier)
    \/ \E identifier \in Containers : getChildren(identifier)

SpecStore == Init /\ [][NextStore]_vars

\* one document of one literal written to the empty database, and read
NextLiteral ==
    \/ \E identifier \in Documents, data \in LiteralStreams :
            \E metadata \in Metadatas(identifier) :
                nops = 0 /\ writeDocument(identifier, data, metadata)
    \/ \E identifier \in Documents : getData(identifier)

SpecLiteral == Init /\ [][NextLiteral]_vars

-----------------------------------------------------------------------------
(* Properties of the transport, checked under Spec *)

\* the retriable conditions as the specification lists them
AbortSignal(e) == e.kind = "ERR_ABORTED"

TransientUnavailable(e) ==
    /\ e.kind = "ServiceError"
    /\ e.code = 14
    /\ e.details \in {"Connection dropped", "read ECONNRESET", "No connection established"}

RetriableFailure(a) ==
    a.kind = "throw" /\ (AbortSignal(a.val) \/ TransientUnavailable(a.val))

OtherFailure(a) ==
    a.kind = "throw" /\ ~AbortSignal(a.val) /\ ~TransientUnavailable(a.val)

\* C1: when every attempt fails with the abort signal or a transient
\* unavailable error, exactly 3 attempts are made and the call fails with
\* the value the last attempt threw; when attempt k succeeds, exactly k
\* attempts are made and the call returns that attempt's result.
C1_RetryUpToThreeAttempts ==
    tpc = "done" =>
        LET n == Len(attempts) IN
        /\ Len(txns) = n
        /\ (\A i \in 1..n : RetriableFailure(attempts[i])) =>
                /\ n = 3
                /\ completion = attempts[3]
        /\ \A k \in 1..n : attempts[k].kind = "return" =>
                /\ k = n
                /\ k <= 3
                /\ completion = attempts[k]

C1_Witness ==
    /\ tpc = "done"
    /\ Len(attempts) = 3
    /\ \A i \in 1..3 : RetriableFailure(attempts[i])
    /\ attempts[1].val # attempts[3].val
    /\ completion = attempts[3]

\* C2: a thrown value that is neither the abort signal nor a transient
\* unavailable error ends the call at that attempt (at the first attempt:
\* after exactly one attempt) and the caller receives that very value.
C2_OtherErrorsPropagateUnretried ==
    tpc = "done" =>
        \A k \in 1..Len(attempts) : OtherFailure(attempts[k]) =>
            /\ k = Len(attempts)
            /\ Len(txns) = k
            /\ completion = Throw(attempts[k].val)

C2_Witness ==
    /\ tpc = "done"
    /\ Len(attempts) = 1
    /\ Len(txns) = 1
    /\ attempts[1] = Throw(ServiceError(14, "failed to connect to all addresses"))
    /\ completion = attempts[1]

\* C3: no transaction is discarded twice, and when the call completes
\* every transaction it opened has been discarded exactly once.
C3_EveryTransactionDiscardedOnce ==
    /\ \A i \in 1..Len(txns) : txns[i] <= 1
    /\ tpc = "done" =>
        /\ Len(txns) = Len(attempts)
        /\ \A i \in 1..Len(txns) : txns[i] = 1

C3_Witness ==
    /\ tpc = "done"
    /\ Len(txns) = 3
    /\ \A i \in 1..3 : txns[i] = 1
    /\ completion.kind = "throw"

-----------------------------------------------------------------------------
(* Properties of the initialization guard, checked under SpecGuard *)

\* caller c has started an alter call
HasInitiated(c) == \E i \in 1..Len(alterLog) : alterLog[i].by = c

C5_NoTransactionBeforeReady ==
    \A c \in Callers :
        (gpc[c] \in {"ensured", "txn"} \/ gtxns[c] > 0) =>
            /\ clientInitialized
            /\ \E i \in 1..Len(alterLog) : alterLog[i].out = "ok"

C5_Witness ==
    \E c \in Callers :
        /\ arrived[c] = "Initializing"
        /\ ~HasInitiated(c)
        /\ gtxns[c] = 1

\* caller c evaluates ensureClientIsInitialized in this step
Evaluates(c) ==
    \/ gpc[c] = "idle" /\ gpc'[c] # "idle"
    \/ gpc[c] = "waiting" /\ (gpc'[c] # "waiting" \/ waitTime'[c] # waitTime[c])

\* C6: a waiting caller whose next poll carries a wait above the bound
\* while the guard is still Initializing fails with the initialization
\* failure error and has opened no transaction, whatever its operation.
C6_WaiterTimesOut ==
    [][\A c \in Callers :
        ( /\ gpc[c] = "waiting"
          /\ Evaluates(c)
          /\ GuardState = "Initializing"
          /\ waitTime[c] + INITIALIZATION_CHECK_PERIOD > MAX_INITIALIZATION_TIMEOUT_DURATION )
        => ( /\ gpc'[c] = "done"
             /\ gresult'[c] = InitFailure
             /\ gtxns'[c] = 0 )]_vars

C6_Witness ==
    \E c \in Callers :
        /\ gop[c] \in WriteOps
        /\ arrived[c] = "Initializing"
        /\ gpc[c] = "done"
        /\ gresult[c] = InitFailure
        /\ gtxns[c] = 0
        /\ GuardState = "Initializing"

C8_WaitersOnlyTimeOut ==
    \A c \in Callers :
        (sawAlterFail[c] /\ gpc[c] = "done") => gresult[c] = InitFailure

\* C8 amended: a caller that sat in the poll loop when an alter call
\* failed never receives the error of another caller's alter call: it
\* ends with the initialization failure error, or with the error of an
\* alter call it made itself, or its operation goes through.
C8_WaitersNeverSeeAnothersCause ==
    \A c \in Callers :
        (sawAlterFail[c] /\ gpc[c] = "done") =>
            \/ gresult[c] = InitFailure
            \/ gresult[c] = "settled"
            \/ \E i \in 1..Len(alterLog) :
                    alterLog[i].by = c /\ alterLog[i].out = gresult[c]

C8_Witness ==
    \E c \in Callers :
        /\ sawAlterFail[c]
        /\ gpc[c] = "done"
        /\ gresult[c] \in AlterErrors
        /\ \E i \in 1..Len(alterLog) :
                alterLog[i].by # c /\ alterLog[i].out \in AlterErrors /\ alterLog[i].out # gresult[c]

-----------------------------------------------------------------------------
(* Properties of the accessor operations, checked under SpecStore *)

\* some quad of the input lies outside the default graph
HasForeignGraphQuad(quads) == \E i \in 1..Len(quads) : quads[i].graph # DefaultGraph

\* the step is a writeDocument call
IsWriteDocumentStep == nops' = nops + 1 /\ lastOp'.kind = "writeDocument"

\* the labels of the blank nodes of a set of quads
BlankLabels(quads) ==
    {q.subject.value : q \in {x \in quads : x.subject.termType = "BlankNode"}}
    \cup {q.object.value : q \in {x \in quads : x.object.termType = "BlankNode"}}

RelabelTerm(term, f) ==
    IF term.termType = "BlankNode" THEN [term EXCEPT !.value = f[term.value]] ELSE term

Relabel(quads, f) ==
    {[q EXCEPT !.subject = RelabelTerm(q.subject, f), !.object = RelabelTerm(q.object, f)] :
        q \in quads}

\* two sets of quads are equal up to a renaming of their blank nodes
Isomorphic(A, B) ==
    \E f \in [BlankLabels(A) -> BlankLabels(B)] :
        /\ \A x, y \in BlankLabels(A) : f[x] = f[y] => x = y
        /\ Relabel(A, f) = B

\* C9: a writeDocument whose input holds a quad outside the default graph,
\* at whatever position, ends with NotImplementedHttpError 'Only triples in
\* the default graph are supported.', and the call starts no initialization
\* (no alter call), opens no transaction and leaves the store as it was.
C9_ForeignGraphRejectedBeforeDatabase ==
    [][(IsWriteDocumentStep /\ HasForeignGraphQuad(lastOp'.quads))
        => /\ lastOp'.out = NotImplementedHttpError
           /\ lastOp'.out.message = "Only triples in the default graph are supported."
           /\ alterLog' = alterLog
           /\ clientInitialized' = clientInitialized
           /\ initializingClient' = initializingClient
           /\ gtxns' = gtxns
           /\ txns' = txns /\ attempts' = attempts
           /\ store' = store /\ nextUid' = nextUid]_vars

\* C9 witness: the first operation of the accessor is a writeDocument whose
\* second quad, after one in the default graph, lies in a named graph; it
\* has been rejected and the client is still uninitialized
C9_Witness ==
    /\ lastOp.kind = "writeDocument"
    /\ Len(lastOp.quads) = 2
    /\ lastOp.quads[1].graph = DefaultGraph
    /\ lastOp.quads[2].graph = NamedGraph
    /\ lastOp.out = NotImplementedHttpError
    /\ ~clientInitialized /\ alterLog = <<>> /\ gtxns[TheCaller] = 0

\* C10: writeDocument(id, Q, M) for quads Q of the default graph, followed
\* by getData(id), returns a set of quads isomorphic to Q, whatever the
\* order of the quads in the input.
C10_WriteThenReadRoundTrips ==
    [][(/\ lastOp.kind = "writeDocument"
        /\ ~HasForeignGraphQuad(lastOp.quads)
        /\ lastOp'.kind = "getData"
        /\ lastOp'.id = lastOp.id)
        => Isomorphic(lastOp'.result, Range(lastOp.quads))]_vars


\* a write or a delete that went through to the database and was accepted
IsAcceptedStep(kind) ==
    nops' = nops + 1 /\ lastOp'.kind = kind /\ lastOp'.out = Ok

\* C11: a write fully replaces the stored sets of the resource.  After an
\* accepted writeDocument(X, Q2, M2), getData(X) returns exactly the quads
\* of Q2 and the metadata stored for X is exactly M2 (without the
\* content-type quad the write strips), whatever X held before; after an
\* accepted writeContainer(X, M2) the metadata stored for X is exactly M2
\* and the data of X is what it was.
C11_WriteReplacesStoredSets ==
    [][/\ IsAcceptedStep("writeDocument") =>
            /\ dataOf(store', lastOp'.id) = Range(lastOp'.quads)
            /\ storedMetadataOf(store', lastOp'.id)
                   = Range(removeAll(lastOp'.metadata, CONTENT_TYPE))
       /\ IsAcceptedStep("writeContainer") =>
            /\ storedMetadataOf(store', lastOp'.id) = Range(lastOp'.metadata)
            /\ dataOf(store', lastOp'.id) = dataOf(store, lastOp'.id)]_vars

Resources == Containers \cup Documents

\* a writeDocument or writeContainer step, whatever its outcome
IsWriteStep ==
    nops' = nops + 1 /\ lastOp'.kind \in {"writeDocument", "writeContainer"}

\* C12: a write of X preserves other data.  For every resource Y other
\* than X, what getData(Y) and getMetadata(Y) answer is the same after a
\* writeDocument(X) or writeContainer(X) as before it, also when Y is the
\* parent of X, when the IRI of Y is an object in the quads of X, and when
\* a literal of Y is an object in the quads of X.
C12_WritePreservesOtherResources ==
    [][IsWriteStep =>
          \A Y \in Resources \ {lastOp'.id} :
              /\ dataOf(store', Y) = dataOf(store, Y)
              /\ metadataOf(store', Y) = metadataOf(store, Y)]_vars

\* C12: the container c was written, with a reference to the document and a
\* literal of the document in its metadata, after the document was written
\* with that literal in its data
C12_Witness ==
    /\ lastOp.kind = "writeContainer" /\ lastOp.id = Root \o <<"c/">> /\ lastOp.out = Ok
    /\ nops = 2
    /\ metadataOf(store, Root \o <<"doc">>).out = Ok
    /\ \E q \in dataOf(store, Root \o <<"doc">>) :
           q.object = Literal(<<"n", "\"">>, <<"en">>, RDF_LANGSTRING)
    /\ \E q \in storedMetadataOf(store, Root \o <<"c/">>) :
           q.object = NamedNode(Root \o <<"doc">>)

\* the identifier Y lies under the container X
IsContainedIn(Y, X) ==
    Len(Y) > Len(X) /\ SubSeq(Y, 1, Len(X)) = X

\* the nodes of type Entity that carry the uri
EntityNodes(st, uri) ==
    WithValue(st, "uri", uri) \cap WithValue(st, "dgraph.type", <<"Entity">>)

\* C13: deleteResource(X) deletes only what X owns.  The Entity node of the
\* parent of X keeps its uri and its type, and for every resource Y that is
\* neither X nor contained in X, what getData(Y) and getMetadata(Y) answer
\* is the same after the delete as before it, also when the IRI of X is an
\* object in the data or metadata of Y.
C13_DeletePreservesOtherResources ==
    [][(nops' = nops + 1 /\ lastOp'.kind = "deleteResource") =>
          /\ LET parent == getRelatedNames(lastOp'.id).parent IN
             parent # NoParent => EntityNodes(store', parent) = EntityNodes(store, parent)
          /\ \A Y \in Resources \ {lastOp'.id} :
                ~IsContainedIn(Y, lastOp'.id) =>
                    /\ dataOf(store', Y) = dataOf(store, Y)
                    /\ metadataOf(store', Y) = metadataOf(store, Y)]_vars

\* a write or a delete, whatever its outcome
IsMutationStep == nops' = nops + 1

\* C14: getMetadata fails with NotFound whenever no metadata quad is
\* decoded for the identifier, and only then.  None is decoded for an
\* identifier on the empty database, none for an identifier that had none
\* after a write or a delete of another identifier (so none for one never
\* written), and none right after an accepted deleteResource of the
\* identifier, when getData yields no quad for it either.
C14_GetMetadataNotFound ==
    [][/\ lastOp'.kind = "getMetadata" =>
            (lastOp'.out = NotFoundHttpError <=> storedMetadataOf(store, lastOp'.id) = {})
       /\ nops = 0 => \A id \in Resources : storedMetadataOf(store, id) = {}
       /\ IsMutationStep =>
            \A id \in Resources \ {lastOp'.id} :
                storedMetadataOf(store, id) = {} => storedMetadataOf(store', id) = {}
       /\ IsAcceptedStep("deleteResource") =>
            storedMetadataOf(store', lastOp'.id) = {}
       /\ (lastOp.kind = "deleteResource" /\ lastOp.out = Ok /\ lastOp'.id = lastOp.id) =>
            /\ lastOp'.kind = "getMetadata" => lastOp'.out = NotFoundHttpError
            /\ lastOp'.kind = "getData" => lastOp'.result = {}]_vars

\* C14: getMetadata of the document failed with NotFound right after the
\* document, written with data before, was deleted; the literal of its data
\* is still in the database
C14_Witness ==
    /\ lastOp.kind = "getMetadata" /\ lastOp.out = NotFoundHttpError
    /\ lastOp.id = Root \o <<"doc">>
    /\ lastOp.prev = [kind |-> "deleteResource", id |-> Root \o <<"doc">>, out |-> Ok]
    /\ nops = 2
    /\ \E e \in store : e.p = "_value.%" /\ e.v = <<"LF">>

\* how often x occurs in seq
Count(seq, x) == Cardinality({i \in 1..Len(seq) : seq[i] = x})

\* C15: after an accepted write of a resource X that is not the root and
\* has the parent P, getChildren(P) yields X exactly once, also when X was
\* written before; after an accepted deleteResource(X), getChildren(P) does
\* not yield X; and getChildren(P) yields immediate children of P only, each
\* once.
C15_ChildrenListedOnce ==
    [][/\ \A P \in Containers :
            LET children == childrenOf(store', P) IN
            /\ \A i \in 1..Len(children) : getParentContainer(children[i]) = P
            /\ \A i, j \in 1..Len(children) : children[i] = children[j] => i = j
       /\ LET X == lastOp'.id
              P == getRelatedNames(X).parent
          IN /\ (IsWriteStep /\ lastOp'.out = Ok /\ P # NoParent) =>
                    Count(childrenOf(store', P), X) = 1
             /\ (IsAcceptedStep("deleteResource") /\ P # NoParent) =>
                    Count(childrenOf(store', P), X) = 0]_vars

\* the request was built by the write routine or the delete routine
IsBuilt == lastOp.kind \in {"writeDocument", "writeContainer", "deleteResource"}
               /\ lastOp.out # NotImplementedHttpError

\* the parent lookups of a request: its query blocks named parent
ParentQueries(up) == {q \in Range(up.queries) : q.name = <<"parent">>}

\* the statements of a request that refer to the parent variable
ParentStatements(nquads) ==
    {nq \in Range(nquads) : nq.s = Uid(<<"parent">>) \/ nq.o = Uid(<<"parent">>)}

Containment == NQuad(Uid(<<"entity">>), "container", Uid(<<"parent">>))

\* C16: the write routine and the delete routine emit the parent lookup and
\* the containment statement if and only if the identifier is not the root
\* container.  A write of a resource that is not the root has exactly one
\* parent lookup, pinned to the IRI of the parent, and the set statement
\* `uid(entity) <container> uid(parent)`; a delete of one has the lookup and
\* that statement as a delete statement; a write or delete of the root has
\* no parent lookup and no statement on the parent; a delete has no set
\* statement at all.
C16_ParentBranchIffNotRoot ==
    IsBuilt =>
        LET up == lastOp.up
            isWrite == lastOp.kind # "deleteResource"
        IN /\ isRootContainer(lastOp.id) =>
                /\ ParentQueries(up) = {}
                /\ ParentStatements(up.setNquads) = {}
                /\ ParentStatements(up.delNquads) = {}
           /\ ~isRootContainer(lastOp.id) =>
                /\ ParentQueries(up) =
                       {entityUidVarQuery(<<"parent">>, getParentContainer(lastOp.id))}
                /\ isWrite => /\ Containment \in Range(up.setNquads)
                              /\ ParentStatements(up.delNquads) = {}
                /\ ~isWrite => Containment \in Range(up.delNquads)
           /\ ~isWrite => up.setNquads = <<>>

\* C16: the root container was deleted after the container c was written
C16_Witness ==
    /\ lastOp.kind = "deleteResource" /\ lastOp.id = Root
    /\ lastOp.prev = NoPrev /\ nops = 2
    /\ Len(lastOp.up.queries) = 2
    /\ \E e \in store : e.p = "uri" /\ e.v = Root \o <<"c/">>

\* the quad asserting the internal quads content type on the identifier
ContentTypeQuad(identifier) ==
    Quad(NamedNode(identifier), NamedNode(CONTENT_TYPE),
         Literal(INTERNAL_QUADS, <<>>, XSD_STRING), DefaultGraph)

\* the content-type quads on the identifier among quads
ContentTypeQuads(quads, identifier) ==
    {q \in quads : q.subject = NamedNode(identifier) /\ q.predicate.value = CONTENT_TYPE}

\* C17: getMetadata of a document returns the metadata quads stored for it
\* and exactly one content-type quad, which asserts the internal quads type
\* on the document; getMetadata of a container returns the stored quads and
\* nothing else; and writeDocument stores no content-type quad, so the one
\* returned for a document is never a stored one.
C17_ContentTypeIsSynthetic ==
    [][/\ (lastOp'.kind = "getMetadata" /\ lastOp'.out = Ok) =>
            LET id == lastOp'.id
                stored == storedMetadataOf(store, id)
            IN IF isContainerIdentifier(id)
               THEN lastOp'.result = stored
               ELSE /\ lastOp'.result = stored \cup {ContentTypeQuad(id)}
                    /\ ContentTypeQuads(lastOp'.result, id) = {ContentTypeQuad(id)}
                    /\ ContentTypeQuad(id) \notin stored
       /\ IsAcceptedStep("writeDocument") =>
            \A q \in storedMetadataOf(store', lastOp'.id) : q.predicate.value # CONTENT_TYPE]_vars

\* C17: getMetadata answered for the document, written with a content-type
\* quad in its metadata, with its type and the content-type quad
C17_Witness ==
    /\ lastOp.kind = "getMetadata" /\ lastOp.out = Ok
    /\ lastOp.id = Root \o <<"doc">>
    /\ lastOp.prev.kind = "writeDocument"
    /\ ContentTypeQuad(lastOp.id) \in Range(lastOp.metadata)
    /\ Cardinality(lastOp.result) = 2
    /\ ContentTypeQuad(lastOp.id) \in lastOp.result

-----------------------------------------------------------------------------
(* Properties of the literals, checked under SpecLiteral and SpecStore *)

\* the table of the value slots
SlotTable(datatype) ==
    IF datatype \in {<<"http://www.w3.org/2001/XMLSchema#integer">>,
                     <<"http://www.w3.org/2001/XMLSchema#int">>,
                     <<"http://www.w3.org/2001/XMLSchema#positiveInteger">>}
    THEN "_value.#i"
    ELSE IF datatype \in {<<"http://www.w3.org/2001/XMLSchema#float">>,
                          <<"http://www.w3.org/2001/XMLSchema#double">>}
    THEN "_value.#"
    ELSE IF datatype = <<"http://www.w3.org/2001/XMLSchema#boolean">>
    THEN "_value.?"
    ELSE IF datatype \in {<<"http://www.w3.org/2001/XMLSchema#dateTime">>,
                          <<"http://www.w3.org/2001/XMLSchema#date">>}
    THEN "_value.%dt"
    ELSE "_value.%"

\* the last operation wrote a document of one quad with a literal
WroteOneLiteral ==
    /\ lastOp.kind = "writeDocument" /\ lastOp.out # NotImplementedHttpError
    /\ Len(lastOp.quads) = 1 /\ lastOp.quads[1].object.termType = "Literal"

\* the nodes of st that hold a value slot
LiteralNodes(st) == {e.s : e \in {x \in st : x.p \in ValueKeys}}

\* C18: the mapping from datatypes to value slots is total and is the
\* table.  The request for a literal compares and sets the slot the table
\* gives for its datatype, and no other slot, whatever the datatype is, and
\* sets the datatype attribute of the same node to the datatype IRI as it
\* is; when the database accepts the request, the node of the literal holds
\* that slot only and that datatype.
C18_SlotTableAndDatatype ==
    WroteOneLiteral =>
        LET literal == lastOp.quads[1].object
            slot == SlotTable(literal.datatype)
            slots == {nq \in Range(lastOp.up.setNquads) : nq.p \in ValueKeys}
            lookups == {q \in Range(lastOp.up.queries) : q.kind = "literal"}
        IN /\ Cardinality(slots) = 1 /\ Cardinality(lookups) = 1
           /\ \A nq \in slots :
                /\ nq.p = slot
                /\ NQuad(nq.s, "datatype", Str(literal.datatype)) \in Range(lastOp.up.setNquads)
           /\ \A q \in lookups : q.key = slot /\ q.c = literal.datatype
           /\ lastOp.out = Ok =>
                /\ LiteralNodes(store) # {}
                /\ \A n \in LiteralNodes(store) :
                      /\ Keys(store, n) \cap ValueKeys = {slot}
                      /\ Get(store, n, "datatype") = literal.datatype

\* C18: the literal "7" of the datatype xsd:positiveInteger was written and
\* its node holds 7 in the integer slot
C18_Witness ==
    /\ WroteOneLiteral /\ lastOp.out = Ok
    /\ lastOp.quads[1].object =
           Literal(<<"7">>, <<>>, <<"http://www.w3.org/2001/XMLSchema#positiveInteger">>)
    /\ \E e \in store : e.p = "_value.#i" /\ e.v = <<"7">>

\* C19: literals round-trip.  For every literal that was written as the
\* object of a document's only quad, the value statement holds the lexical
\* value with each double quote escaped, and getData decodes the stored
\* node to a literal with the same lexical value, the same language tag and
\* the same datatype.
C19_LiteralsRoundTrip ==
    [][(WroteOneLiteral /\ lastOp.out = Ok /\ lastOp'.kind = "getData") =>
          /\ \A nq \in Range(lastOp.up.setNquads) :
                 nq.p \in ValueKeys =>
                     \A i \in 1..Len(nq.o.n) :
                         nq.o.n[i] = "\"" => (i > 1 /\ nq.o.n[i - 1] = "\\")
          /\ \A q \in lastOp'.result :
                 /\ q.object.value = lastOp.quads[1].object.value
                 /\ q.object.language = lastOp.quads[1].object.language
                 /\ q.object.datatype = lastOp.quads[1].object.datatype
          /\ Cardinality(lastOp'.result) = 1]_vars

\* C20: after any sequence of writeDocument, writeContainer and
\* deleteResource, every node that holds a value slot holds exactly one
\* value slot, a language attribute (the empty string for a literal
\* without a language) and a datatype attribute that is not empty.
C20_LiteralNodesComplete ==
    \A n \in LiteralNodes(store) :
        /\ Cardinality(Keys(store, n) \cap ValueKeys) = 1
        /\ HasKey(store, n, "language")
        /\ HasKey(store, n, "datatype")
        /\ Get(store, n, "datatype") # <<>>

\* C20: after a write and a delete the database holds the node of a literal
\* without a language and the node of a literal with one
C20_Witness ==
    /\ lastOp.kind = "deleteResource" /\ lastOp.out = Ok /\ nops = 2
    /\ \E n \in LiteralNodes(store) : Get(store, n, "language") = <<>>
    /\ \E n \in LiteralNodes(store) : Get(store, n, "language") = <<"en">>

-----------------------------------------------------------------------------
(* Properties of the stored graph, checked under SpecStore *)

\* the nodes that carry the dgraph.type
NodesOfType(st, type) == WithValue(st, "dgraph.type", <<type>>)

\* the targets of the container edges of the node
ContainersOf(st, node) == {e.u : e \in {x \in st : x.s = node /\ x.p = "container" /\ x.u > 0}}

\* C21: after any sequence of writeDocument, writeContainer and
\* deleteResource (a delete of a container that still has children
\* included), every node of type EntityData or Metadata has exactly one
\* container edge, and that edge leads to a node of type Entity.
C21_DataNodesHaveEntityContainer ==
    \A node \in NodesOfType(store, "EntityData") \cup NodesOfType(store, "Metadata") :
        /\ Cardinality(ContainersOf(store, node)) = 1
        /\ ContainersOf(store, node) \subseteq NodesOfType(store, "Entity")

\* the uri values the nodes of the store carry
UriValues(st) == {e.v : e \in {x \in st : x.p = "uri" /\ x.u = 0}}

\* C22: after any sequence of writes and deletes, at most one node of type
\* Entity carries any given uri value, also when one write names the same
\* IRI several times (as the resource, as its parent, as the object of
\* several quads) and no Entity node had that uri before the write.
C22_OneEntityNodePerUri ==
    \A uri \in UriValues(store) : Cardinality(EntityNodes(store, uri)) <= 1

-----------------------------------------------------------------------------
(* Resources that share a literal, checked under SpecShared: the           *)
(* operations of SpecStore on a database where the root container has been *)
(* written with its metadata, which holds the literal the documents hold   *)
(* too.  The histories are counted from that state on.                     *)

RootMetadata == CHOOSE metadata \in Metadatas(Root) : TRUE

\* the database after writeContainer(Root, RootMetadata) on the empty one
RootWritten == doRequest({}, 1, buildUpsert(Root, RootMetadata, NoParent, NoTriples))

InitShared ==
    /\ TransportInit
    /\ clientInitialized = TRUE
    /\ initializingClient = FALSE
    /\ gpc = [c \in Callers |-> "idle"]
    /\ gop = [c \in Callers |-> "none"]
    /\ waitTime = [c \in Callers |-> 0]
    /\ gresult = [c \in Callers |-> "none"]
    /\ gtxns = [c \in Callers |-> IF c = TheCaller THEN 1 ELSE 0]
    /\ alterLog = <<[by |-> TheCaller, out |-> "ok"]>>
    /\ arrived = [c \in Callers |-> "none"]
    /\ sawAlterFail = [c \in Callers |-> FALSE]
    /\ store = RootWritten.store
    /\ nextUid = RootWritten.next
    /\ lastOp = NoOp
    /\ nops = 0

SpecShared == InitShared /\ [][NextStore]_vars

\* the quads of the resource, data or stored metadata, whose object is a literal
LiteralQuads(quads) == {q \in quads : q.object.termType = "Literal"}

\* the literals the data and the stored metadata of the resource refer to
LiteralsOf(st, identifier) ==
    {q.object : q \in LiteralQuads(dataOf(st, identifier) \cup storedMetadataOf(st, identifier))}

\* C23: a literal that the data or metadata of two resources refer to
\* survives the delete or the rewrite of one of them: after a
\* deleteResource, writeDocument or writeContainer of X, every other
\* resource Y is still read with each quad whose literal object X
\* referred to as well, with the same value, language and datatype.
C23_SharedLiteralSurvives ==
    [][IsMutationStep =>
          \A Y \in Resources \ {lastOp'.id} :
              /\ \A q \in LiteralQuads(dataOf(store, Y)) :
                    q.object \in LiteralsOf(store, lastOp'.id) => q \in dataOf(store', Y)
              /\ \A q \in LiteralQuads(storedMetadataOf(store, Y)) :
                    q.object \in LiteralsOf(store, lastOp'.id)
                        => q \in storedMetadataOf(store', Y)]_vars

-----------------------------------------------------------------------------
(* Decoding, checked under SpecDecode: a response handed to the decoder    *)
(* as the unit tests hand it, a tree of at most three levels.  The tree is *)
(* a set of edges as the store is: node 1 is the object of the data array, *)
(* nodes 2 and 3 are nested under its key, node 4 under a key of node 2    *)
(* and node 5 under a key of node 3.                                       *)

JsonKinds == {"uri", "blankNode", "literal"}

\* the scalar keys of the response object n
JsonObject(n, kind) ==
    CASE kind = "uri" ->
            {ValueEdge(n, "uri", <<"http://identifier/">> \o Digits(n)),
             ValueEdge(n, "dgraph.type", <<"Entity">>)}
      [] kind = "blankNode" ->
            {ValueEdge(n, "blankNode", <<"b">> \o Digits(n)),
             ValueEdge(n, "dgraph.type", <<"EntityData">>)}
      [] kind = "literal" ->
            {ValueEdge(n, "_value.%", <<"v">> \o Digits(n)),
             ValueEdge(n, "datatype", XSD_STRING)}
      [] OTHER -> {}

BestFriend == "https://best.friend"

Knows == "https://knows"

\* the key of node n that holds the object m of the kind, when there is one
JsonKey(n, key, m, kind) ==
    IF kind = "none" THEN {} ELSE {UidEdge(n, key, m)} \cup JsonObject(m, kind)

JsonShapes ==
    {s \in [root : JsonKinds, second : JsonKinds, third : JsonKinds \cup {"none"},
            fourth : JsonKinds \cup {"none"}, fifth : JsonKinds \cup {"none"}] :
        s.third = "none" => s.fifth = "none"}

JsonResponse(s) ==
    [data |-> {1},
     tree |-> JsonObject(1, s.root)
              \cup JsonKey(1, BestFriend, 2, s.second) \cup JsonKey(1, BestFriend, 3, s.third)
              \cup JsonKey(2, Knows, 4, s.fourth) \cup JsonKey(3, Knows, 5, s.fifth)]

JsonResponses == {JsonResponse(s) : s \in JsonShapes}

\* the response the database client is made to answer with
InitDecode ==
    /\ TransportInit
    /\ GuardInit
    /\ store = {}
    /\ nextUid = 1
    /\ nops = 0
    /\ \E responseJSON \in JsonResponses : lastOp = [NoOp EXCEPT !.json = responseJSON]

\* const quads = this.rdfQuadsFromJsonArray(responseJSON.data)
decodeResponse ==
    /\ lastOp.kind = "none"
    /\ lastOp' = [lastOp EXCEPT !.kind = "decode",
                                !.result = rdfQuadsFromJsonArray(lastOp.json.tree,
                                                                 lastOp.json.data)]
    /\ UNCHANGED <<store, nextUid, nops, tvars, gvars>>

NextDecode == decodeResponse

SpecDecode == InitDecode /\ [][NextDecode]_vars

\* the response object n has an identity
HasIdentity(st, n) == HasKey(st, n, "uri") \/ HasKey(st, n, "blankNode")

\* the nested objects with an identity under the keys of the roots of the response
NestedIdentities(json) ==
    {e \in json.tree : e.u # 0 /\ e.s \in json.data /\ HasIdentity(json.tree, e.s)
                       /\ HasIdentity(json.tree, e.u)}

\* the keys of a nested object that hold objects
FurtherKeys(json, n) == {e \in json.tree : e.s = n /\ e.u # 0}

\* C24 as stated: a nested object with an identity yields the quad
\* (subject, predicate, identity term), and when it carries further
\* predicate keys the decoding goes on from it as a new subject and
\* yields the quads of that extra hop.
C24_NestedIdentityContinues ==
    lastOp.kind = "decode" =>
        \A e \in NestedIdentities(lastOp.json) :
            LET st == lastOp.json.tree IN
            /\ Quad(dgraphNodeToTerm(st, e.s), NamedNode(<<e.p>>), dgraphNodeToTerm(st, e.u),
                    DefaultGraph) \in lastOp.result
            /\ \A f \in FurtherKeys(lastOp.json, e.u) :
                  Quad(dgraphNodeToTerm(st, e.u), NamedNode(<<f.p>>), dgraphNodeToTerm(st, f.u),
                       DefaultGraph) \in lastOp.result

\* C24 amended: a nested object with an identity yields the quad
\* (subject, predicate, identity term) and nothing else: the decoding does
\* not go on from it, its further predicate keys yield no quad, and the
\* subject of every decoded quad is an object of the data array.
C24_NestedIdentityYieldsOneQuad ==
    lastOp.kind = "decode" =>
        LET st == lastOp.json.tree IN
        /\ \A e \in NestedIdentities(lastOp.json) :
              /\ Quad(dgraphNodeToTerm(st, e.s), NamedNode(<<e.p>>), dgraphNodeToTerm(st, e.u),
                      DefaultGraph) \in lastOp.result
              /\ \A q \in lastOp.result : q.subject # dgraphNodeToTerm(st, e.u)
        /\ \A q \in lastOp.result :
              \E n \in lastOp.json.data : HasIdentity(st, n) /\ q.subject = dgraphNodeToTerm(st, n)

\* C24: a nested named node that carries a further key was decoded into
\* the one quad that has it as its object
C24_Witness ==
    /\ lastOp.kind = "decode"
    /\ \E e \in NestedIdentities(lastOp.json) :
          /\ HasKey(lastOp.json.tree, e.u, "uri")
          /\ FurtherKeys(lastOp.json, e.u) # {}
          /\ lastOp.result = {Quad(dgraphNodeToTerm(lastOp.json.tree, e.s), NamedNode(<<e.p>>),
                                   dgraphNodeToTerm(lastOp.json.tree, e.u), DefaultGraph)}

-----------------------------------------------------------------------------
(* Further properties of the transport, checked under Spec *)

\* the transactions of the call that were opened and not discarded yet
OpenTransactions == {i \in 1..Len(txns) : txns[i] = 0}

\* C25: in a retried call the transaction of a failed attempt is discarded
\* before the next attempt opens its transaction, so that a query or an
\* upsert never holds more than one open transaction at a time.
C25_OneOpenTransaction ==
    Cardinality(OpenTransactions) <= 1

-----------------------------------------------------------------------------
(* Further properties of the initialization guard, checked under SpecGuard *)

\* the waits a caller has gone through when its waitTime argument is w
Waits(w) == w \div INITIALIZATION_CHECK_PERIOD

\* C26 as stated: a waiting caller polls every INITIALIZATION_CHECK_PERIOD,
\* and the wait it has accumulated when it fails with the initialization
\* failure error never exceeds MAX_INITIALIZATION_TIMEOUT_DURATION: it has
\* gone through at most 150 waits.
C26_WaitWithinTimeout ==
    \A c \in Callers :
        gresult[c] = InitFailure =>
            /\ waitTime[c] <= MAX_INITIALIZATION_TIMEOUT_DURATION
            /\ Waits(waitTime[c]) <= 150

\* C26 amended: a waiting caller polls every INITIALIZATION_CHECK_PERIOD;
\* it starts a wait while the wait accumulated so far is at most
\* MAX_INITIALIZATION_TIMEOUT_DURATION, and when it fails with the
\* initialization failure error it has accumulated exactly one period more
\* than that bound: 1510 ms in 151 waits.
C26_WaitOnePeriodPastTimeout ==
    /\ [](\A c \in Callers :
            /\ gpc[c] = "waiting" =>
                  /\ waitTime[c] <= MAX_INITIALIZATION_TIMEOUT_DURATION
                  /\ waitTime[c] % INITIALIZATION_CHECK_PERIOD = 0
            /\ gresult[c] = InitFailure =>
                  /\ waitTime[c] = MAX_INITIALIZATION_TIMEOUT_DURATION
                                       + INITIALIZATION_CHECK_PERIOD
                  /\ Waits(waitTime[c]) = 151)
    /\ [][\A c \in Callers :
            (gpc[c] = "waiting" /\ Evaluates(c) /\ gpc'[c] \in {"waiting", "done"}) =>
                waitTime'[c] = waitTime[c] + INITIALIZATION_CHECK_PERIOD]_vars

\* C26: a caller has failed with the initialization failure error after
\* 151 waits while the initialization it waited for is still pending
C26_Witness ==
    \E c \in Callers :
        /\ gpc[c] = "done"
        /\ gresult[c] = InitFailure
        /\ Waits(waitTime[c]) = 151
        /\ GuardState = "Initializing"

-----------------------------------------------------------------------------
(* Further properties of the accessor operations, checked under SpecStore *)

\* what the reads answer for every resource in the database st
Observed(st) ==
    [Y \in Resources |->
        [data |-> dataOf(st, Y), metadata |-> metadataOf(st, Y),
         children |-> IF Y \in Containers THEN childrenOf(st, Y) ELSE <<>>]]

\* the step applies again the write or delete that was applied last
RepeatsLastOperation ==
    /\ IsMutationStep
    /\ lastOp.kind \in {"writeDocument", "writeContainer", "deleteResource"}
    /\ lastOp.out = Ok /\ lastOp'.out = Ok
    /\ lastOp'.kind = lastOp.kind /\ lastOp'.id = lastOp.id
    /\ lastOp'.quads = lastOp.quads /\ lastOp'.metadata = lastOp.metadata

\* C27: writes and deletes are idempotent.  The same writeDocument or
\* writeContainer (same identifier, quads and metadata) or the same
\* deleteResource applied a second time right after the first leaves
\* getData, getMetadata and getChildren of every resource as they were
\* after the first.
C27_UpsertsAreIdempotent ==
    [][RepeatsLastOperation => Observed(store') = Observed(store)]_vars

-----------------------------------------------------------------------------
(* Documents of many subjects and many quads, checked under SpecWide: one  *)
(* document written to the empty database.  It has up to MaxSubjects       *)
(* subjects with one quad each, but for one subject that has up to         *)
(* MaxQuadsOfSubject quads.                                                *)

MaxSubjects == 12

MaxQuadsOfSubject == 11

\* the index of the subject with many quads in a document of s subjects
WideSubject(s) == IF s > 1 THEN 1 ELSE 0

\* the quad of index j of the subject of index i: the objects are literals,
\* named nodes and blank nodes in turn
WideQuad(i, j) ==
    Quad(NamedNode(<<"http://test.com/s">> \o Digits(i)), PredicateP,
         CASE j % 3 = 0 -> Literal(<<"v">> \o Digits(i) \o <<".">> \o Digits(j), <<>>, XSD_STRING)
           [] j % 3 = 1 -> NamedNode(<<"http://test.com/o">> \o Digits(i) \o <<".">> \o Digits(j))
           [] OTHER -> BlankNode(<<"b">> \o Digits(i) \o <<".">> \o Digits(j)),
         DefaultGraph)

\* the document of s subjects whose wide subject has k quads
WideDocument(s, k) ==
    Flatten([x \in 1..s |->
                [y \in 1..(IF x - 1 = WideSubject(s) THEN k ELSE 1) |-> WideQuad(x - 1, y - 1)]])

NextWide ==
    \E s \in 1..MaxSubjects, k \in 1..MaxQuadsOfSubject :
        \E identifier \in Documents : \E metadata \in Metadatas(identifier) :
            nops = 0 /\ writeDocument(identifier, WideDocument(s, k), metadata)

SpecWide == Init /\ [][NextWide]_vars

\* the variables the statements refer to as uid(v)
UidRefs(nquads) ==
    {nquads[i].s.n : i \in {x \in 1..Len(nquads) : nquads[x].s.k = "uid"}}
        \cup {nquads[i].o.n : i \in {x \in 1..Len(nquads) : nquads[x].o.k = "uid"}}

\* the number of query blocks of the upsert that declare the variable
Declarations(up, name) ==
    Cardinality({i \in 1..Len(up.queries) : up.queries[i].name = name})

\* C28: in every upsert built for a write or a delete, each variable that
\* a set or delete statement refers to as uid(v) is declared by exactly
\* one query block of the upsert: none is undeclared and no two blocks
\* declare one name, for any number of subjects and of quads per subject.
C28_VariablesDeclaredOnce ==
    IsBuilt =>
        /\ \A name \in UidRefs(lastOp.up.setNquads) \cup UidRefs(lastOp.up.delNquads) :
              Declarations(lastOp.up, name) = 1
        /\ \A i \in 1..Len(lastOp.up.queries) :
              Declarations(lastOp.up, lastOp.up.queries[i].name) = 1

-----------------------------------------------------------------------------
(* Further properties of the literals, checked under SpecLiteral *)

\* the number of backslashes that stand right before position i of the text
RECURSIVE BackslashesBefore(_, _)
BackslashesBefore(text, i) ==
    IF i > 1 /\ text[i - 1] = "\\" THEN 1 + BackslashesBefore(text, i - 1) ELSE 0

\* the text holds a double quote that is not escaped: one with an even
\* number of backslashes before it
HasUnescapedQuote(text) ==
    \E i \in 1..Len(text) : text[i] = "\"" /\ BackslashesBefore(text, i) % 2 = 0

\* the texts of literal values that the upsert puts between double quotes:
\* in the query blocks of the literals and in the statements on value slots
ValueTexts(up) ==
    {up.queries[i].a : i \in {x \in 1..Len(up.queries) : up.queries[x].kind = "literal"}}
        \cup {up.setNquads[i].o.n :
                i \in {x \in 1..Len(up.setNquads) :
                        up.setNquads[x].o.k = "str" /\ up.setNquads[x].p \in ValueKeys}}

\* C29: for every lexical value, also one with a backslash right before a
\* double quote, the escaped text put between double quotes in the query
\* block and in the set statement holds no unescaped double quote, so that
\* no value ends the quoted string early.
C29_NoUnescapedQuote ==
    IsBuilt => \A text \in ValueTexts(lastOp.up) : ~HasUnescapedQuote(text)

-----------------------------------------------------------------------------
(* Termination, checked under SpecTermination: the operations of SpecGuard *)
(* with the attempts of their transport call, where every timer fires and  *)
(* every database call completes.                                          *)

\* the transport call of caller c has opened gtxns[c] transactions (its
\* `tries`); the attempt rejects with a retriable value and tries are
\* left, so that the catch block opens the next transaction, one too many
RetryTransactionOneMore(c) ==
    /\ gpc[c] = "txn"
    /\ \E e \in ThrownValues : ShouldRetry(e, gtxns[c] - 1)
    /\ gtxns' = [gtxns EXCEPT ![c] = @ + 1]
    /\ UNCHANGED <<clientInitialized, initializingClient, gpc, gop, waitTime, gresult,
                   alterLog, arrived, sawAlterFail, tvars, svars>>

\* the attempt of caller c rejects with a retriable value while
\* tries < MAX_TRANSACTION_RETRIES: the catch block calls
\* performBlockWithTransaction again, which opens the next transaction
RetryTransaction(c) ==
    /\ gpc[c] = "txn"
    /\ \E e \in ThrownValues : ShouldRetry(e, gtxns[c])
    /\ gtxns' = [gtxns EXCEPT ![c] = @ + 1]
    /\ UNCHANGED <<clientInitialized, initializingClient, gpc, gop, waitTime, gresult,
                   alterLog, arrived, sawAlterFail, tvars, svars>>

NextTermination ==
    \E c \in Callers :
        \/ sendDgraphClientQuery(c)
        \/ sendDgraphClientUpsert(c)
        \/ Poll(c)
        \/ AlterResolves(c)
        \/ AlterRejects(c)
        \/ OpenTransaction(c)
        \/ RetryTransaction(c)
        \/ OperationSettles(c)

\* the timer of a waiting caller fires, the alter call it awaits settles,
\* the operation goes on after the guard, and its attempt settles
Completes(c) ==
    /\ WF_vars(Poll(c))
    /\ WF_vars(AlterResolves(c) \/ AlterRejects(c))
    /\ WF_vars(OpenTransaction(c))
    /\ WF_vars(RetryTransaction(c) \/ OperationSettles(c))

SpecTermination ==
    Init /\ [][NextTermination]_vars /\ \A c \in Callers : Completes(c)

\* C30: every operation terminates.  When every database call and every
\* timer completes, an operation that has started goes through a bounded
\* number of polls (at most 151) and at most MAX_TRANSACTION_RETRIES
\* attempts and then returns or fails, under every interleaving with the
\* other operations, whether the initialization succeeds, fails or outlasts
\* the wait.
C30_OperationsTerminate ==
    /\ [](\A c \in Callers :
            /\ Waits(waitTime[c]) <= 151
            /\ gtxns[c] <= MAX_TRANSACTION_RETRIES)
    /\ \A c \in Callers : (gpc[c] # "idle") ~> (gpc[c] = "done" /\ gresult[c] # "none")

\* C30: one operation has failed in the poll loop after 151 waits and the
\* other has ended after three attempts
C30_Witness ==
    \E c, other \in Callers :
        /\ gpc[c] = "done" /\ gresult[c] = InitFailure /\ Waits(waitTime[c]) = 151
        /\ gpc[other] = "done" /\ gresult[other] = "settled" /\ gtxns[other] = 3

====
